---- MODULE Spec2Model ----
(***************************************************************************)
(* Model of the cryptolens package (src/cryptolens/cryptolens.go): the     *)
(* activation client, the license payload parser, the signature verifier   *)
(* and the offline codec.  Byte strings are sequences of numbers 0..255;   *)
(* text is the sequence of its ASCII codes.                                 *)
(***************************************************************************)
EXTENDS Integers, Sequences, FiniteSets, TLC

(***************************************************************************)
(* Byte-string helpers                                                     *)
(***************************************************************************)
Pow2(k) == IF k = 0 THEN 1 ELSE IF k = 1 THEN 2 ELSE IF k = 2 THEN 4
           ELSE IF k = 3 THEN 8 ELSE IF k = 4 THEN 16 ELSE IF k = 5 THEN 32
           ELSE IF k = 6 THEN 64 ELSE 128

\* b with bit k (0 = least significant) inverted
FlipBit(b, k) == IF (b \div Pow2(k)) % 2 = 1 THEN b - Pow2(k) ELSE b + Pow2(k)

\* the byte string s with bit k of its i-th byte inverted
FlipAt(s, i, k) == [j \in 1..Len(s) |-> IF j = i THEN FlipBit(s[j], k) ELSE s[j]]

\* the least number of the non-empty set S
Min(S) == CHOOSE x \in S : \A y \in S : x <= y

\* the first position from i on where s holds a byte of the set stop, and
\* Len(s) + 1 when there is none
FirstIn(s, i, stop) == Min({j \in i..Len(s) : s[j] \in stop} \cup {Len(s) + 1})

\* the first position from i on where s holds a byte outside the set skip
FirstNotIn(s, i, skip) == Min({j \in i..Len(s) : s[j] \notin skip} \cup {Len(s) + 1})

RECURSIVE Filter(_, _)
\* the bytes of s that are not in the set drop, in order
Filter(s, drop) ==
    LET i == FirstIn(s, 1, drop) IN
    IF i > Len(s) THEN s
    ELSE SubSeq(s, 1, i - 1) \o Filter(SubSeq(s, i + 1, Len(s)), drop)

(***************************************************************************)
(* encoding/base64, StdEncoding: the alphabet A-Z a-z 0-9 + / with '='     *)
(* padding.  EncodeToString and DecodeString as the package computes them. *)
(***************************************************************************)
\* the character of a 6-bit value
B64Char(v) == IF v < 26 THEN 65 + v
              ELSE IF v < 52 THEN 97 + (v - 26)
              ELSE IF v < 62 THEN 48 + (v - 52)
              ELSE IF v = 62 THEN 43 ELSE 47

\* the 6-bit value of a character, -1 when it is not in the alphabet
B64Val(c) == IF c >= 65 /\ c <= 90 THEN c - 65
             ELSE IF c >= 97 /\ c <= 122 THEN c - 97 + 26
             ELSE IF c >= 48 /\ c <= 57 THEN c - 48 + 52
             ELSE IF c = 43 THEN 62
             ELSE IF c = 47 THEN 63 ELSE -1

\* the j-th character (1..4) of the quantum that encodes the bytes g, one to
\* three of them
B64EncodeChar(g, j) ==
    LET b1 == g[1]
        b2 == IF Len(g) >= 2 THEN g[2] ELSE 0
        b3 == IF Len(g) >= 3 THEN g[3] ELSE 0
    IN  IF j = 1 THEN B64Char(b1 \div 4)
        ELSE IF j = 2 THEN B64Char((b1 % 4) * 16 + b2 \div 16)
        ELSE IF j = 3 THEN
            (IF Len(g) >= 2 THEN B64Char((b2 % 16) * 4 + b3 \div 64) ELSE 61)
        ELSE (IF Len(g) >= 3 THEN B64Char(b3 % 64) ELSE 61)

\* EncodeToString: every three bytes give four characters, and the one or
\* two bytes left over a quantum padded with '='
B64Encode(b) ==
    [i \in 1..(4 * ((Len(b) + 2) \div 3)) |->
        LET q == (i - 1) \div 4
            lo == 3 * q + 1
            hi == IF lo + 2 <= Len(b) THEN lo + 2 ELSE Len(b)
        IN  B64EncodeChar(SubSeq(b, lo, hi), ((i - 1) % 4) + 1)]

\* one quantum of four characters; last: it is the final quantum, where
\* padding may stand.  The low bits a padded quantum leaves over are dropped
\* unchecked (the encoding is not Strict).
B64Quantum(q, last) ==
    LET v == [i \in 1..4 |-> B64Val(q[i])] IN
    IF v[1] < 0 \/ v[2] < 0 THEN [ok |-> FALSE, bytes |-> <<>>]
    ELSE IF v[3] >= 0 /\ v[4] >= 0 THEN
        [ok |-> TRUE,
         bytes |-> << v[1] * 4 + v[2] \div 16,
                      (v[2] % 16) * 16 + v[3] \div 4,
                      (v[3] % 4) * 64 + v[4] >>]
    ELSE IF last /\ v[3] >= 0 /\ q[4] = 61 THEN
        [ok |-> TRUE,
         bytes |-> << v[1] * 4 + v[2] \div 16,
                      (v[2] % 16) * 16 + v[3] \div 4 >>]
    ELSE IF last /\ q[3] = 61 /\ q[4] = 61 THEN
        [ok |-> TRUE, bytes |-> << v[1] * 4 + v[2] \div 16 >>]
    ELSE [ok |-> FALSE, bytes |-> <<>>]

\* the quanta of s, none of which but the last may be padded
B64Quanta(s) ==
    LET n == Len(s) \div 4
        Q(q) == B64Quantum(SubSeq(s, 4 * q - 3, 4 * q), q = n)
        Starts == [q \in 1..n |-> 3 * (q - 1)]
        total == IF n = 0 THEN 0 ELSE Starts[n] + Len(Q(n).bytes)
    IN  IF Len(s) % 4 # 0 \/ \E q \in 1..n : ~Q(q).ok
        THEN [ok |-> FALSE, bytes |-> <<>>]
        ELSE [ok |-> TRUE,
              bytes |-> [i \in 1..total |->
                            Q(((i - 1) \div 3) + 1).bytes[((i - 1) % 3) + 1]]]

\* DecodeString: carriage returns and line feeds are skipped wherever they
\* stand; ok = FALSE is the CorruptInputError.
B64Decode(s) == B64Quanta(Filter(s, {10, 13}))

(***************************************************************************)
(* encoding/json: the text level.  A document is parsed into a value       *)
(*   [t, b, neg, digits, int, s, items]                                    *)
(* t: "null" "bool" "num" "str" "arr" "obj"; b: the boolean; neg, digits,  *)
(* int: sign, integer digits and "has neither fraction nor exponent" of a  *)
(* number; s: the unquoted string; items: the elements of an array, or the *)
(* members <<key, value>> of an object in the order of the text.           *)
(* A parse result is [ok, next, v]: next is the first unread position.     *)
(***************************************************************************)
JNull == [t |-> "null", b |-> FALSE, neg |-> FALSE, digits |-> <<>>,
          int |-> FALSE, s |-> <<>>, items |-> <<>>]
JBool(x) == [JNull EXCEPT !.t = "bool", !.b = x]
JNum(n, d, i) == [JNull EXCEPT !.t = "num", !.neg = n, !.digits = d, !.int = i]
JStr(x) == [JNull EXCEPT !.t = "str", !.s = x]
JArr(x) == [JNull EXCEPT !.t = "arr", !.items = x]
JObj(x) == [JNull EXCEPT !.t = "obj", !.items = x]

JFail == [ok |-> FALSE, next |-> 0, v |-> JNull]
JOk(n, x) == [ok |-> TRUE, next |-> n, v |-> x]

IsDigit(c) == c >= 48 /\ c <= 57
IsHex(c) == IsDigit(c) \/ (c >= 97 /\ c <= 102) \/ (c >= 65 /\ c <= 70)
HexVal(c) == IF IsDigit(c) THEN c - 48
             ELSE IF c >= 97 THEN c - 97 + 10 ELSE c - 65 + 10

\* the first position from i on that holds no white space
SkipSpace(b, i) == FirstNotIn(b, i, {32, 9, 13, 10})

\* unicode/utf8 EncodeRune
EncodeRune(r) ==
    IF r < 128 THEN <<r>>
    ELSE IF r < 2048 THEN << 192 + r \div 64, 128 + (r % 64) >>
    ELSE IF r < 65536 THEN
        << 224 + r \div 4096, 128 + ((r \div 64) % 64), 128 + (r % 64) >>
    ELSE << 240 + r \div 262144, 128 + ((r \div 4096) % 64),
            128 + ((r \div 64) % 64), 128 + (r % 64) >>

\* U+FFFD, what an invalid byte or an unpaired surrogate is replaced by
ReplacementChar == EncodeRune(65533)

\* unicode/utf8 DecodeRune: the length of the well-formed UTF-8 sequence at
\* b[i], 0 when there is none
Utf8Len(b, i) ==
    LET c0 == b[i]
        Cont(j) == j <= Len(b) /\ b[j] >= 128 /\ b[j] <= 191
        In(j, lo, hi) == j <= Len(b) /\ b[j] >= lo /\ b[j] <= hi
    IN  IF c0 < 128 THEN 1
        ELSE IF c0 >= 194 /\ c0 <= 223 THEN (IF Cont(i + 1) THEN 2 ELSE 0)
        ELSE IF c0 = 224 THEN
            (IF In(i + 1, 160, 191) /\ Cont(i + 2) THEN 3 ELSE 0)
        ELSE IF c0 = 237 THEN
            (IF In(i + 1, 128, 159) /\ Cont(i + 2) THEN 3 ELSE 0)
        ELSE IF c0 >= 225 /\ c0 <= 239 THEN
            (IF Cont(i + 1) /\ Cont(i + 2) THEN 3 ELSE 0)
        ELSE IF c0 = 240 THEN
            (IF In(i + 1, 144, 191) /\ Cont(i + 2) /\ Cont(i + 3) THEN 4 ELSE 0)
        ELSE IF c0 >= 241 /\ c0 <= 243 THEN
            (IF Cont(i + 1) /\ Cont(i + 2) /\ Cont(i + 3) THEN 4 ELSE 0)
        ELSE IF c0 = 244 THEN
            (IF In(i + 1, 128, 143) /\ Cont(i + 2) /\ Cont(i + 3) THEN 4 ELSE 0)
        ELSE 0

\* the four hex digits at b[i..i+3] as a number, -1 when they are not there
GetU4(b, i) ==
    IF i + 3 <= Len(b) /\ \A j \in i..(i + 3) : IsHex(b[j]) THEN
        HexVal(b[i]) * 4096 + HexVal(b[i + 1]) * 256
            + HexVal(b[i + 2]) * 16 + HexVal(b[i + 3])
    ELSE -1

\* the character a one-letter escape stands for, -1 when it is none
EscapeChar(c) ==
    IF c \in {34, 92, 47} THEN c
    ELSE IF c = 98 THEN 8 ELSE IF c = 102 THEN 12 ELSE IF c = 110 THEN 10
    ELSE IF c = 114 THEN 13 ELSE IF c = 116 THEN 9 ELSE -1

\* the bytes that stand for themselves in a string: ASCII but the control
\* characters, the quote and the backslash
PlainBytes == (32..127) \ {34, 92}

\* the code point of the escape \uXXXX whose digits are r, and the length
\* of the text that stands for it: r2 is the number of the \uXXXX that
\* follows, -1 when none does.  A pair of surrogates is one code point; a
\* surrogate without its partner is U+FFFD.
EscapedRune(r, r2) ==
    IF r >= 55296 /\ r <= 56319 /\ r2 >= 56320 /\ r2 <= 57343 THEN
        [rune |-> (r - 55296) * 1024 + (r2 - 56320) + 65536, len |-> 12]
    ELSE IF r >= 55296 /\ r <= 57343 THEN [rune |-> 65533, len |-> 6]
    ELSE [rune |-> r, len |-> 6]

\* what the text at b[i], which is not a plain byte, adds to a string:
\* [len, s], the length of the text and the bytes it stands for; len = 0:
\* the text is no part of a string
StringPiece(b, i) ==
    IF b[i] < 32 \/ b[i] = 34 THEN [len |-> 0, s |-> <<>>]
    ELSE IF b[i] = 92 THEN
        IF i + 1 > Len(b) THEN [len |-> 0, s |-> <<>>]
        ELSE IF b[i + 1] = 117 THEN
            IF GetU4(b, i + 2) < 0 THEN [len |-> 0, s |-> <<>>]
            ELSE LET e == EscapedRune(GetU4(b, i + 2),
                              IF i + 7 <= Len(b) /\ b[i + 6] = 92 /\ b[i + 7] = 117
                              THEN GetU4(b, i + 8) ELSE -1)
                 IN  [len |-> e.len, s |-> EncodeRune(e.rune)]
        ELSE IF EscapeChar(b[i + 1]) < 0 THEN [len |-> 0, s |-> <<>>]
        ELSE [len |-> 2, s |-> <<EscapeChar(b[i + 1])>>]
    ELSE IF Utf8Len(b, i) = 0 THEN [len |-> 1, s |-> ReplacementChar]
    ELSE [len |-> Utf8Len(b, i), s |-> SubSeq(b, i, i + Utf8Len(b, i) - 1)]

RECURSIVE StringBody(_, _, _)
StringPieceThen(b, i, acc, piece) ==
    IF piece.len = 0 THEN JFail
    ELSE StringBody(b, i + piece.len, acc \o piece.s)

\* the string whose opening quote has been read; i is the next position and
\* acc the unquoted bytes so far
StringBody(b, i, acc) ==
    IF i > Len(b) THEN JFail
    ELSE IF b[i] = 34 THEN JOk(i + 1, JStr(acc))
    ELSE IF b[i] \in PlainBytes THEN
        StringBody(b, FirstNotIn(b, i, PlainBytes),
                   acc \o SubSeq(b, i, FirstNotIn(b, i, PlainBytes) - 1))
    ELSE StringPieceThen(b, i, acc, StringPiece(b, i))

\* the first position at or after i that holds no digit
DigitsEnd(b, i) == FirstNotIn(b, i, 48..57)

\* the number whose integer digits are b[s..e-1], its fraction going up to
\* f and its exponent up to x; x0 is where the digits of the exponent start
NumberOf(b, neg, s, e, f, x0, x) ==
    IF e = s THEN JFail
    ELSE IF f > e /\ f = e + 1 THEN JFail
    ELSE IF x > f /\ x = x0 THEN JFail
    ELSE JOk(x, JNum(neg, [j \in 1..(e - s) |-> b[s + j - 1] - 48], f = e /\ x = f))

\* the exponent, if any, of the number whose fraction ends before f
NumberExp(b, neg, s, e, f) ==
    IF f <= Len(b) /\ b[f] \in {101, 69} THEN
        IF f + 1 <= Len(b) /\ b[f + 1] \in {43, 45}
        THEN NumberOf(b, neg, s, e, f, f + 2, DigitsEnd(b, f + 2))
        ELSE NumberOf(b, neg, s, e, f, f + 1, DigitsEnd(b, f + 1))
    ELSE NumberOf(b, neg, s, e, f, f, f)

\* the fraction, if any, of the number whose integer digits end before e
NumberFrac(b, neg, s, e) ==
    IF e > s /\ e <= Len(b) /\ b[e] = 46
    THEN NumberExp(b, neg, s, e, DigitsEnd(b, e + 1))
    ELSE NumberExp(b, neg, s, e, e)

\* the number whose sign has been read and whose digits start at b[s]
NumberInt(b, neg, s) ==
    IF s <= Len(b) /\ b[s] = 48 THEN NumberFrac(b, neg, s, s + 1)
    ELSE NumberFrac(b, neg, s, DigitsEnd(b, s))

\* a number starting at b[i]: -? (0 | [1-9][0-9]*) (. [0-9]+)? ([eE] [+-]? [0-9]+)?
ParseNumber(b, i) ==
    IF b[i] = 45 THEN NumberInt(b, TRUE, i + 1) ELSE NumberInt(b, FALSE, i)

\* b holds the bytes of lit at position i
HasLiteral(b, i, lit) ==
    /\ i + Len(lit) - 1 <= Len(b)
    /\ \A j \in 1..Len(lit) : b[i + j - 1] = lit[j]

RECURSIVE ParseValue(_, _), ArrayRest(_, _, _), ObjectRest(_, _, _)

\* after an element of an array or a member of an object, at position j:
\* the closing bracket, or a comma and the rest
ArrayNext(b, j, acc) ==
    IF j > Len(b) THEN JFail
    ELSE IF b[j] = 93 THEN JOk(j + 1, JArr(acc))
    ELSE IF b[j] = 44 THEN ArrayRest(b, SkipSpace(b, j + 1), acc)
    ELSE JFail

ObjectNext(b, j, acc) ==
    IF j > Len(b) THEN JFail
    ELSE IF b[j] = 125 THEN JOk(j + 1, JObj(acc))
    ELSE IF b[j] = 44 THEN ObjectRest(b, SkipSpace(b, j + 1), acc)
    ELSE JFail

\* the element e has been read
ArrayElement(b, e, acc) ==
    IF ~e.ok THEN JFail
    ELSE ArrayNext(b, SkipSpace(b, e.next), Append(acc, e.v))

\* the value e of the member named key has been read
ObjectValue(b, key, e, acc) ==
    IF ~e.ok THEN JFail
    ELSE ObjectNext(b, SkipSpace(b, e.next), Append(acc, <<key, e.v>>))

\* the name k of a member has been read: the colon at c, and the value
ObjectColon(b, key, c, acc) ==
    IF c > Len(b) \/ b[c] # 58 THEN JFail
    ELSE ObjectValue(b, key, ParseValue(b, SkipSpace(b, c + 1)), acc)

ObjectKey(b, k, acc) ==
    IF ~k.ok THEN JFail
    ELSE ObjectColon(b, k.v.s, SkipSpace(b, k.next), acc)

\* at b[j], past the bracket that opens an array or an object
ArrayOpen(b, j) ==
    IF j <= Len(b) /\ b[j] = 93 THEN JOk(j + 1, JArr(<<>>))
    ELSE ArrayRest(b, j, <<>>)

ObjectOpen(b, j) ==
    IF j <= Len(b) /\ b[j] = 125 THEN JOk(j + 1, JObj(<<>>))
    ELSE ObjectRest(b, j, <<>>)

\* the value starting at b[i] (i is past any white space)
ParseValue(b, i) ==
    IF i > Len(b) THEN JFail
    ELSE IF b[i] = 123 THEN ObjectOpen(b, SkipSpace(b, i + 1))
    ELSE IF b[i] = 91 THEN ArrayOpen(b, SkipSpace(b, i + 1))
    ELSE IF b[i] = 34 THEN StringBody(b, i + 1, <<>>)
    ELSE IF b[i] = 45 \/ IsDigit(b[i]) THEN ParseNumber(b, i)
    ELSE IF HasLiteral(b, i, <<116, 114, 117, 101>>) THEN JOk(i + 4, JBool(TRUE))
    ELSE IF HasLiteral(b, i, <<102, 97, 108, 115, 101>>) THEN JOk(i + 5, JBool(FALSE))
    ELSE IF HasLiteral(b, i, <<110, 117, 108, 108>>) THEN JOk(i + 4, JNull)
    ELSE JFail

\* the elements of an array from position i on, acc being those read
ArrayRest(b, i, acc) == ArrayElement(b, ParseValue(b, i), acc)

\* the members of an object from position i on, acc being those read
ObjectRest(b, i, acc) ==
    IF i > Len(b) \/ b[i] # 34 THEN JFail
    ELSE ObjectKey(b, StringBody(b, i + 1, <<>>), acc)

\* r, if it is the parse of all of b but white space
WholeOf(b, r) ==
    IF r.ok /\ SkipSpace(b, r.next) = Len(b) + 1 THEN r ELSE JFail

\* json.Unmarshal's view of the text: one value, white space around it and
\* nothing else (checkValid)
ParseDocument(b) == WholeOf(b, ParseValue(b, SkipSpace(b, 1)))

\* json.Decoder.Decode's view of a stream: the first value; what follows it
\* stays unread
ParseStream(b) == ParseValue(b, SkipSpace(b, 1))

(***************************************************************************)
(* The ASCII codes of the names the package uses: struct fields, JSON tags *)
(* and XML element names.                                                  *)
(***************************************************************************)
Ascii ==
    [ ProductId |-> <<80, 114, 111, 100, 117, 99, 116, 73, 100>>,
      Id |-> <<73, 100>>,
      Key |-> <<75, 101, 121>>,
      Created |-> <<67, 114, 101, 97, 116, 101, 100>>,
      Expires |-> <<69, 120, 112, 105, 114, 101, 115>>,
      Period |-> <<80, 101, 114, 105, 111, 100>>,
      F1 |-> <<70, 49>>,
      F2 |-> <<70, 50>>,
      F3 |-> <<70, 51>>,
      F4 |-> <<70, 52>>,
      F5 |-> <<70, 53>>,
      F6 |-> <<70, 54>>,
      F7 |-> <<70, 55>>,
      F8 |-> <<70, 56>>,
      Notes |-> <<78, 111, 116, 101, 115>>,
      Block |-> <<66, 108, 111, 99, 107>>,
      GlobalId |-> <<71, 108, 111, 98, 97, 108, 73, 100>>,
      Customer |-> <<67, 117, 115, 116, 111, 109, 101, 114>>,
      ActivatedMachines |-> <<65, 99, 116, 105, 118, 97, 116, 101, 100, 77, 97, 99, 104, 105, 110, 101, 115>>,
      TrialActivation |-> <<84, 114, 105, 97, 108, 65, 99, 116, 105, 118, 97, 116, 105, 111, 110>>,
      MaxNoOfMachines |-> <<77, 97, 120, 78, 111, 79, 102, 77, 97, 99, 104, 105, 110, 101, 115>>,
      AllowedMachines |-> <<65, 108, 108, 111, 119, 101, 100, 77, 97, 99, 104, 105, 110, 101, 115>>,
      DataObjects |-> <<68, 97, 116, 97, 79, 98, 106, 101, 99, 116, 115>>,
      SignDate |-> <<83, 105, 103, 110, 68, 97, 116, 101>>,
      Name |-> <<78, 97, 109, 101>>,
      Email |-> <<69, 109, 97, 105, 108>>,
      CompanyName |-> <<67, 111, 109, 112, 97, 110, 121, 78, 97, 109, 101>>,
      Mid |-> <<77, 105, 100>>,
      IP |-> <<73, 80>>,
      Time |-> <<84, 105, 109, 101>>,
      StringValue |-> <<83, 116, 114, 105, 110, 103, 86, 97, 108, 117, 101>>,
      IntValue |-> <<73, 110, 116, 86, 97, 108, 117, 101>>,
      licenseKey |-> <<108, 105, 99, 101, 110, 115, 101, 75, 101, 121>>,
      signature |-> <<115, 105, 103, 110, 97, 116, 117, 114, 101>>,
      result |-> <<114, 101, 115, 117, 108, 116>>,
      message |-> <<109, 101, 115, 115, 97, 103, 101>>,
      Modulus |-> <<77, 111, 100, 117, 108, 117, 115>>,
      Exponent |-> <<69, 120, 112, 111, 110, 101, 110, 116>>,
      RSAKeyValue |-> <<82, 83, 65, 75, 101, 121, 86, 97, 108, 117, 101>> ]

(***************************************************************************)
(* Integers of the program are kept in decimal, [neg, digits], so that the *)
(* full range of an int64 can be told from what lies beyond it.  bits is   *)
(* the width of the build's int: 32 or 64.                                 *)
(***************************************************************************)
Num(neg, digits) == [neg |-> neg /\ digits # <<0>>, digits |-> digits]
Zero == Num(FALSE, <<0>>)

MaxInt32 == <<2, 1, 4, 7, 4, 8, 3, 6, 4, 7>>
MinInt32 == <<2, 1, 4, 7, 4, 8, 3, 6, 4, 8>>
MaxInt64 == <<9, 2, 2, 3, 3, 7, 2, 0, 3, 6, 8, 5, 4, 7, 7, 5, 8, 0, 7>>
MinInt64 == <<9, 2, 2, 3, 3, 7, 2, 0, 3, 6, 8, 5, 4, 7, 7, 5, 8, 0, 8>>

RECURSIVE LexLE(_, _)
\* a <= b for digit strings of one length
LexLE(a, b) ==
    IF a = <<>> THEN TRUE
    ELSE IF Head(a) # Head(b) THEN Head(a) < Head(b)
    ELSE LexLE(Tail(a), Tail(b))

\* a <= b for digit strings without leading zeros
MagLE(a, b) == Len(a) < Len(b) \/ (Len(a) = Len(b) /\ LexLE(a, b))

\* strconv.ParseInt(s, 10, 64) succeeds and reflect's OverflowInt for a
\* field of the given width does not report overflow
IntFits(neg, digits, bits) ==
    IF bits = 32 THEN MagLE(digits, IF neg THEN MinInt32 ELSE MaxInt32)
    ELSE MagLE(digits, IF neg THEN MinInt64 ELSE MaxInt64)

(***************************************************************************)
(* Sums and differences of decimal numbers                                 *)
(***************************************************************************)
\* the digit string a with zeros in front, n digits long
PadLeft(a, n) ==
    [i \in 1..n |-> IF i + Len(a) - n >= 1 THEN a[i + Len(a) - n] ELSE 0]

RECURSIVE StripZeros(_)
StripZeros(a) ==
    IF Len(a) > 1 /\ Head(a) = 0 THEN StripZeros(Tail(a)) ELSE a

RECURSIVE AddDigits(_, _, _, _)
\* the digits of a + b + carry, a and b cut after their i-th digit
AddDigits(a, b, i, carry) ==
    IF i = 0 THEN <<carry>>
    ELSE Append(AddDigits(a, b, i - 1, (a[i] + b[i] + carry) \div 10),
                (a[i] + b[i] + carry) % 10)

RECURSIVE SubDigits(_, _, _, _)
\* the digits of a - b - borrow, for a >= b
SubDigits(a, b, i, borrow) ==
    IF i = 0 THEN <<>>
    ELSE Append(SubDigits(a, b, i - 1, IF a[i] - b[i] - borrow < 0 THEN 1 ELSE 0),
                (a[i] - b[i] - borrow + 10) % 10)

MagAdd(a, b) ==
    LET n == IF Len(a) > Len(b) THEN Len(a) ELSE Len(b)
    IN  StripZeros(AddDigits(PadLeft(a, n), PadLeft(b, n), n, 0))

\* a - b for a >= b
MagSub(a, b) ==
    StripZeros(SubDigits(a, PadLeft(b, Len(a)), Len(a), 0))

\* x + y, as a number that is not bounded
NumAdd(x, y) ==
    IF x.neg = y.neg THEN Num(x.neg, MagAdd(x.digits, y.digits))
    ELSE IF MagLE(y.digits, x.digits) THEN Num(x.neg, MagSub(x.digits, y.digits))
    ELSE Num(y.neg, MagSub(y.digits, x.digits))

TwoTo64 == <<1, 8, 4, 4, 6, 7, 4, 4, 0, 7, 3, 7, 0, 9, 5, 5, 1, 6, 1, 6>>

\* the int64 that holds the low 64 bits of x, for x within one wrap
Wrap64(x) ==
    IF ~x.neg /\ ~MagLE(x.digits, MaxInt64) THEN NumAdd(x, Num(TRUE, TwoTo64))
    ELSE IF x.neg /\ ~MagLE(x.digits, MinInt64) THEN NumAdd(x, Num(FALSE, TwoTo64))
    ELSE x

(***************************************************************************)
(* time.Time.  ext: the seconds since January 1, year 1, 00:00 UTC, an     *)
(* int64; loc: the location.  time.Unix(sec, 0) is                         *)
(* Time{0, sec + unixToInternal, Local}, the sum being one of int64; the   *)
(* zero value of the type is January 1, year 1, 00:00 UTC.                 *)
(***************************************************************************)
\* the seconds from January 1, year 1 to January 1, 1970
unixToInternal == Num(FALSE, <<6, 2, 1, 3, 5, 5, 9, 6, 8, 0, 0>>)

TimeUnix(sec) == [ext |-> Wrap64(NumAdd(sec, unixToInternal)), loc |-> "Local"]
ZeroTime == [ext |-> Zero, loc |-> "UTC"]

(***************************************************************************)
(* The types of the package, and their zero values                         *)
(***************************************************************************)
ZeroCustomer ==
    [Id |-> Zero, Name |-> <<>>, Email |-> <<>>, CompanyName |-> <<>>,
     Created |-> ZeroTime]

ZeroActivationData == [Mid |-> <<>>, IP |-> <<>>, Time |-> ZeroTime]

ZeroDataObject ==
    [Id |-> Zero, Name |-> <<>>, StringValue |-> <<>>, IntValue |-> Zero]

\* LicenseKey{}
ZeroLicenseKey ==
    [ProductId |-> Zero, Id |-> Zero, Key |-> <<>>, Created |-> ZeroTime,
     Expires |-> ZeroTime, Period |-> Zero,
     F1 |-> FALSE, F2 |-> FALSE, F3 |-> FALSE, F4 |-> FALSE,
     F5 |-> FALSE, F6 |-> FALSE, F7 |-> FALSE, F8 |-> FALSE,
     Notes |-> <<>>, Block |-> FALSE, GlobalId |-> Zero,
     Customer |-> ZeroCustomer, ActivatedMachines |-> <<>>,
     TrialActivation |-> FALSE, MaxNoOfMachines |-> Zero,
     AllowedMachines |-> <<>>, DataObjects |-> <<>>, SignDate |-> ZeroTime,
     licenseKeyBytes |-> <<>>, signatureBytes |-> <<>>]

\* activateResponse{}
ZeroActivateResponse ==
    [LicenseKey |-> <<>>, Signature |-> <<>>, Result |-> Zero, Message |-> <<>>]

(***************************************************************************)
(* encoding/json: decoding a value into a struct.  A schema lists the      *)
(* fields of the struct in order: name (of the field in the model), key    *)
(* (the member name it is decoded from) and kind (its Go type).            *)
(***************************************************************************)
Field(name, key, kind) == [name |-> name, key |-> key, kind |-> kind]

\* the struct temp of LicenseKey.UnmarshalJSON
LicenseKeyTemp ==
    << Field("ProductId", Ascii.ProductId, "int"),
       Field("Id", Ascii.Id, "int"),
       Field("Key", Ascii.Key, "string"),
       Field("Created", Ascii.Created, "int64"),
       Field("Expires", Ascii.Expires, "int64"),
       Field("Period", Ascii.Period, "int"),
       Field("F1", Ascii.F1, "bool"), Field("F2", Ascii.F2, "bool"),
       Field("F3", Ascii.F3, "bool"), Field("F4", Ascii.F4, "bool"),
       Field("F5", Ascii.F5, "bool"), Field("F6", Ascii.F6, "bool"),
       Field("F7", Ascii.F7, "bool"), Field("F8", Ascii.F8, "bool"),
       Field("Notes", Ascii.Notes, "string"),
       Field("Block", Ascii.Block, "bool"),
       Field("GlobalId", Ascii.GlobalId, "int64"),
       Field("Customer", Ascii.Customer, "Customer"),
       Field("ActivatedMachines", Ascii.ActivatedMachines, "[]ActivationData"),
       Field("TrialActivation", Ascii.TrialActivation, "bool"),
       Field("MaxNoOfMachines", Ascii.MaxNoOfMachines, "int"),
       Field("AllowedMachines", Ascii.AllowedMachines, "string"),
       Field("DataObjects", Ascii.DataObjects, "[]DataObject"),
       Field("SignDate", Ascii.SignDate, "int64") >>

\* the struct temp of Customer.UnmarshalJSON
CustomerTemp ==
    << Field("Id", Ascii.Id, "int"),
       Field("Name", Ascii.Name, "string"),
       Field("Email", Ascii.Email, "string"),
       Field("CompanyName", Ascii.CompanyName, "string"),
       Field("Created", Ascii.Created, "int64") >>

\* the struct temp of ActivationData.UnmarshalJSON
ActivationDataTemp ==
    << Field("Mid", Ascii.Mid, "string"),
       Field("IP", Ascii.IP, "string"),
       Field("Time", Ascii.Time, "int64") >>

\* type DataObject
DataObjectSchema ==
    << Field("Id", Ascii.Id, "int"),
       Field("Name", Ascii.Name, "string"),
       Field("StringValue", Ascii.StringValue, "string"),
       Field("IntValue", Ascii.IntValue, "int") >>

\* type activateResponse, with its json tags
ActivateResponseSchema ==
    << Field("LicenseKey", Ascii.licenseKey, "string"),
       Field("Signature", Ascii.signature, "string"),
       Field("Result", Ascii.result, "int"),
       Field("Message", Ascii.message, "string") >>

ZeroOf(kind) ==
    CASE kind = "string" -> <<>>
      [] kind \in {"int", "int64"} -> Zero
      [] kind = "bool" -> FALSE
      [] kind = "Customer" -> ZeroCustomer
      [] OTHER -> <<>>

\* the zero value of a struct with the given schema
ZeroStruct(schema) ==
    [n \in {schema[i].name : i \in 1..Len(schema)} |->
        ZeroOf(schema[CHOOSE i \in 1..Len(schema) : schema[i].name = n].kind)]

\* ASCII case folding of a byte string
Lower(x) == [i \in 1..Len(x) |-> IF x[i] >= 65 /\ x[i] <= 90 THEN x[i] + 32 ELSE x[i]]

\* the field a member named key is decoded into: the one of that exact
\* name, else the first that matches when case is ignored; 0: none, and the
\* member is skipped
FieldIndex(schema, key) ==
    LET exact == {i \in 1..Len(schema) : schema[i].key = key}
        fold == {i \in 1..Len(schema) : Lower(schema[i].key) = Lower(key)}
    IN  IF exact # {} THEN Min(exact)
        ELSE IF fold # {} THEN Min(fold) ELSE 0

DOk(x) == [ok |-> TRUE, val |-> x]
DFail == [ok |-> FALSE, val |-> <<>>]

RECURSIVE SplitLinesNonEmpty(_)
\* a faulty split that leaves the empty pieces out
SplitLinesNonEmpty(s) ==
    LET i == FirstIn(s, 1, {10}) IN
    IF s = <<>> THEN <<>>
    ELSE IF i > Len(s) THEN <<s>>
    ELSE (IF i = 1 THEN <<>> ELSE <<SubSeq(s, 1, i - 1)>>)
         \o SplitLinesNonEmpty(SubSeq(s, i + 1, Len(s)))

\* strings.Split(s, "\n"): the pieces of s between its line feeds
RECURSIVE SplitLines(_)
SplitLines(s) ==
    LET i == FirstIn(s, 1, {10}) IN
    IF i > Len(s) THEN <<s>>
    ELSE <<SubSeq(s, 1, i - 1)>> \o SplitLines(SubSeq(s, i + 1, Len(s)))

RECURSIVE DecodeStruct(_, _, _, _, _), DecodeValue(_, _, _, _),
          DecodeSlice(_, _, _, _), UnmarshalStruct(_, _, _, _)

\* the outcome r of decoding the value of the i-th member, for the field n
StoreMember(members, i, schema, n, r, temp, bits) ==
    IF ~r.ok THEN DFail
    ELSE DecodeStruct(members, i + 1, schema, [temp EXCEPT ![n] = r.val], bits)

\* the i-th member, f being the index of its field: a member that has no
\* field is skipped
DecodeMember(members, i, schema, f, temp, bits) ==
    IF f = 0 THEN DecodeStruct(members, i + 1, schema, temp, bits)
    ELSE StoreMember(members, i, schema, schema[f].name,
                     DecodeValue(members[i][2], schema[f].kind,
                                 temp[schema[f].name], bits),
                     temp, bits)

\* the object decoder: the members from the i-th on are stored, in the
\* order of the text, into the struct value temp.  A member that cannot be
\* stored makes the call fail.
DecodeStruct(members, i, schema, temp, bits) ==
    IF i > Len(members) THEN DOk(temp)
    ELSE DecodeMember(members, i, schema,
                      FieldIndex(schema, members[i][1]), temp, bits)

\* json.Unmarshal of a parsed value into a struct that has no UnmarshalJSON:
\* null leaves it as it is, an object is decoded member by member, anything
\* else is an UnmarshalTypeError
UnmarshalStruct(v, schema, old, bits) ==
    IF v.t = "null" THEN DOk(old)
    ELSE IF v.t = "obj" THEN DecodeStruct(v.items, 1, schema, old, bits)
    ELSE DFail

\* customer as Customer.UnmarshalJSON leaves it, r being the outcome of
\* json.Unmarshal(b, &temp)
CustomerFromTemp(customer, r) ==
    IF ~r.ok THEN DFail
    ELSE DOk([customer EXCEPT !.Id = r.val.Id,
                              !.Name = r.val.Name,
                              !.Email = r.val.Email,
                              !.CompanyName = r.val.CompanyName,
                              !.Created = TimeUnix(r.val.Created)])

\* func (customer *Customer) UnmarshalJSON(b []byte) error, b being the
\* text of the value v
CustomerUnmarshalJSON(customer, v, bits) ==
    CustomerFromTemp(customer,
        UnmarshalStruct(v, CustomerTemp, ZeroStruct(CustomerTemp), bits))

ActivationDataFromTemp(activationData, r) ==
    IF ~r.ok THEN DFail
    ELSE DOk([activationData EXCEPT !.Mid = r.val.Mid,
                                    !.IP = r.val.IP,
                                    !.Time = TimeUnix(r.val.Time)])

\* func (activationData *ActivationData) UnmarshalJSON(b []byte) error
ActivationDataUnmarshalJSON(activationData, v, bits) ==
    ActivationDataFromTemp(activationData,
        UnmarshalStruct(v, ActivationDataTemp, ZeroStruct(ActivationDataTemp), bits))

\* the element e and the elements r after it
SliceOf(e, r) ==
    IF ~e.ok \/ ~r.ok THEN DFail ELSE DOk(<<e.val>> \o r.val)

\* the elements of an array, each decoded into a fresh element
DecodeSlice(items, i, kind, bits) ==
    IF i > Len(items) THEN DOk(<<>>)
    ELSE IF kind = "[]ActivationData" THEN
        SliceOf(ActivationDataUnmarshalJSON(ZeroActivationData, items[i], bits),
                DecodeSlice(items, i + 1, kind, bits))
    ELSE SliceOf(UnmarshalStruct(items[i], DataObjectSchema, ZeroDataObject, bits),
                 DecodeSlice(items, i + 1, kind, bits))

\* one value stored into a field of the given kind that holds old
DecodeValue(v, kind, old, bits) ==
    CASE kind = "Customer" -> CustomerUnmarshalJSON(old, v, bits)
      [] kind = "string" ->
            IF v.t = "str" THEN DOk(v.s)
            ELSE IF v.t = "null" THEN DOk(old) ELSE DFail
      [] kind = "bool" ->
            IF v.t = "bool" THEN DOk(v.b)
            ELSE IF v.t = "null" THEN DOk(old) ELSE DFail
      [] kind \in {"int", "int64"} ->
            IF v.t = "null" THEN DOk(old)
            ELSE IF /\ v.t = "num" /\ v.int
                    /\ IntFits(v.neg, v.digits, IF kind = "int" THEN bits ELSE 64)
                 THEN DOk(Num(v.neg, v.digits))
            ELSE DFail
      [] OTHER ->
            IF v.t = "null" THEN DOk(<<>>)
            ELSE IF v.t = "arr" THEN DecodeSlice(v.items, 1, kind, bits)
            ELSE DFail

\* licenseKey as LicenseKey.UnmarshalJSON leaves it, r being the outcome of
\* json.Unmarshal(b, &temp)
LicenseKeyFromTemp(licenseKey, r) ==
    IF ~r.ok THEN DFail
    ELSE DOk([licenseKey EXCEPT
            !.ProductId = r.val.ProductId,
            !.Id = r.val.Id,
            !.Key = r.val.Key,
            !.Created = TimeUnix(r.val.Created),
            !.Expires = TimeUnix(r.val.Expires),
            !.Period = r.val.Period,
            !.F1 = r.val.F1, !.F2 = r.val.F2, !.F3 = r.val.F3, !.F4 = r.val.F4,
            !.F5 = r.val.F5, !.F6 = r.val.F6, !.F7 = r.val.F7, !.F8 = r.val.F8,
            !.Notes = r.val.Notes,
            !.Block = r.val.Block,
            !.GlobalId = r.val.GlobalId,
            !.Customer = r.val.Customer,
            !.ActivatedMachines = r.val.ActivatedMachines,
            !.TrialActivation = r.val.TrialActivation,
            !.MaxNoOfMachines = r.val.MaxNoOfMachines,
            !.AllowedMachines = SplitLines(r.val.AllowedMachines),
            !.DataObjects = r.val.DataObjects,
            !.SignDate = TimeUnix(r.val.SignDate)])

\* func (licenseKey *LicenseKey) UnmarshalJSON(b []byte) error
LicenseKeyUnmarshalJSON(licenseKey, v, bits) ==
    LicenseKeyFromTemp(licenseKey,
        UnmarshalStruct(v, LicenseKeyTemp, ZeroStruct(LicenseKeyTemp), bits))

(***************************************************************************)
(* encoding/xml.  The public key descriptor is a sequence of the tokens    *)
(* the decoder reads from it: [k, s] with k one of "start" and "end" (a    *)
(* tag named s), "text" (character data s) and "bad" (text that is no      *)
(* token at all, such as a tag that is never closed).  A position of 0     *)
(* stands for the decoder's error.                                         *)
(***************************************************************************)
Start(name) == [k |-> "start", s |-> name]
End(name) == [k |-> "end", s |-> name]
Text(data) == [k |-> "text", s |-> data]
Bad == [k |-> "bad", s |-> <<>>]

RECURSIVE XmlSkip(_, _, _)
\* Decoder.Skip: the tokens up to and with the end tag of the element
\* `name` whose start tag has been read; the position after it
XmlSkip(toks, i, name) ==
    IF i > Len(toks) \/ toks[i].k = "bad" THEN 0
    ELSE IF toks[i].k = "end" THEN (IF toks[i].s = name THEN i + 1 ELSE 0)
    ELSE IF toks[i].k = "start" THEN
        LET j == XmlSkip(toks, i + 1, toks[i].s) IN
        IF j = 0 THEN 0 ELSE XmlSkip(toks, j, name)
    ELSE XmlSkip(toks, i + 1, name)

RECURSIVE XmlString(_, _, _, _)
\* the element `name` unmarshalled into a string field: its own character
\* data, its child elements skipped.  [next, s]
XmlString(toks, i, name, acc) ==
    IF i > Len(toks) \/ toks[i].k = "bad" THEN [next |-> 0, s |-> <<>>]
    ELSE IF toks[i].k = "end" THEN
        (IF toks[i].s = name THEN [next |-> i + 1, s |-> acc]
         ELSE [next |-> 0, s |-> <<>>])
    ELSE IF toks[i].k = "start" THEN
        LET j == XmlSkip(toks, i + 1, toks[i].s) IN
        IF j = 0 THEN [next |-> 0, s |-> <<>>]
        ELSE XmlString(toks, j, name, acc)
    ELSE XmlString(toks, i + 1, name, acc \o toks[i].s)

RECURSIVE XmlStruct(_, _, _, _)
\* the element `name` unmarshalled into the struct RSAKeyValue, k holding
\* the fields read so far.  [ok, k]
XmlStruct(toks, i, name, k) ==
    IF i > Len(toks) \/ toks[i].k = "bad" THEN [ok |-> FALSE, k |-> k]
    ELSE IF toks[i].k = "end" THEN [ok |-> toks[i].s = name, k |-> k]
    ELSE IF toks[i].k = "text" THEN XmlStruct(toks, i + 1, name, k)
    ELSE IF toks[i].s = Ascii.Modulus THEN
        LET r == XmlString(toks, i + 1, toks[i].s, <<>>) IN
        IF r.next = 0 THEN [ok |-> FALSE, k |-> k]
        ELSE XmlStruct(toks, r.next, name, [k EXCEPT !.Modulus = r.s])
    ELSE IF toks[i].s = Ascii.Exponent THEN
        LET r == XmlString(toks, i + 1, toks[i].s, <<>>) IN
        IF r.next = 0 THEN [ok |-> FALSE, k |-> k]
        ELSE XmlStruct(toks, r.next, name, [k EXCEPT !.Exponent = r.s])
    ELSE LET j == XmlSkip(toks, i + 1, toks[i].s) IN
         IF j = 0 THEN [ok |-> FALSE, k |-> k]
         ELSE XmlStruct(toks, j, name, k)

RECURSIVE XmlUnmarshal(_, _)
\* xml.Unmarshal([]byte(publicKey), &k): the tokens before the first start
\* tag are passed over, that element is unmarshalled, and what follows it
\* is not read
XmlUnmarshal(toks, i) ==
    IF i > Len(toks) \/ toks[i].k \in {"bad", "end"} THEN
        [ok |-> FALSE, k |-> [Modulus |-> <<>>, Exponent |-> <<>>]]
    ELSE IF toks[i].k = "start" THEN
        XmlStruct(toks, i + 1, toks[i].s, [Modulus |-> <<>>, Exponent |-> <<>>])
    ELSE XmlUnmarshal(toks, i + 1)

(***************************************************************************)
(* math/big and the build's int.  A big.Int set from bytes is the          *)
(* big-endian byte string without its leading zero bytes.                  *)
(***************************************************************************)
RECURSIVE SetBytes(_)
SetBytes(b) == IF b # <<>> /\ Head(b) = 0 THEN SetBytes(Tail(b)) ELSE b

\* (*big.Int).IsInt64 of a non-negative number
IsInt64(x) == Len(x) < 8 \/ (Len(x) = 8 /\ x[1] < 128)

\* the last n bytes of x, zero bytes in front when x is shorter
LowBytes(x, n) ==
    [i \in 1..n |-> IF i + Len(x) - n >= 1 THEN x[i + Len(x) - n] ELSE 0]

RECURSIVE Negate(_, _)
\* the two's complement of the byte string x, from its last byte on;
\* carry: one is still to be added
Negate(x, carry) ==
    IF x = <<>> THEN <<>>
    ELSE LET n == Len(x)
             c == 255 - x[n] + (IF carry THEN 1 ELSE 0)
         IN  Append(Negate(SubSeq(x, 1, n - 1), carry /\ c = 256), c % 256)

\* int(exponent.Int64()) for an exponent that IsInt64: the number itself
\* where int has 64 bits; its low 32 bits, read as a signed number, where
\* int has 32.  [neg, mag]: sign and magnitude.
ToInt(x, bits) ==
    IF bits = 64 THEN [neg |-> FALSE, mag |-> x]
    ELSE LET w == LowBytes(x, 4) IN
         IF w[1] >= 128 THEN [neg |-> TRUE, mag |-> SetBytes(Negate(w, TRUE))]
         ELSE [neg |-> FALSE, mag |-> SetBytes(w)]

RECURSIVE BytesToNat(_)
\* the value of a short byte string
BytesToNat(b) ==
    IF b = <<>> THEN 0
    ELSE BytesToNat(SubSeq(b, 1, Len(b) - 1)) * 256 + b[Len(b)]

(***************************************************************************)
(* crypto/sha256 and crypto/rsa, scaled down.  The digest is a polynomial  *)
(* hash modulo the prime 251 in place of SHA-256: two messages that differ *)
(* in one bit have different digests, as is assumed of SHA-256.  The       *)
(* modulus has two bytes in place of 256, and the encoded message of       *)
(* PKCS #1 v1.5 is the digest plus 2, so that it is neither 0 nor 1.       *)
(***************************************************************************)
RECURSIVE PowSmall(_, _, _)
\* c^k mod n for a small exponent k, by halving k
PowSmall(c, k, n) ==
    IF k = 0 THEN 1 % n
    ELSE LET h == PowSmall(c, k \div 2, n)
             sq == (h * h) % n
         IN  IF k % 2 = 1 THEN (sq * c) % n ELSE sq

RECURSIVE Sum256Part(_, _, _)
\* the sum of (m[i] + 1) * 31^(hi - i) for i in lo..hi, modulo 251, by
\* halving the range
Sum256Part(m, lo, hi) ==
    IF lo > hi THEN 0
    ELSE IF lo = hi THEN (m[lo] + 1) % 251
    ELSE (Sum256Part(m, lo, (lo + hi) \div 2)
              * PowSmall(31, hi - ((lo + hi) \div 2), 251)
          + Sum256Part(m, ((lo + hi) \div 2) + 1, hi)) % 251

\* the digest of the first n bytes of m: h(0) = 7 and
\* h(n) = (31 * h(n - 1) + m[n] + 1) mod 251
Sum256Of(m, n) == (7 * PowSmall(31, n, 251) + Sum256Part(m, 1, n)) % 251

\* sha256.Sum256
Sum256(m) == Sum256Of(m, Len(m))

\* the encoded message EM of a digest
EncodedMessage(hashed) == hashed + 2

RECURSIVE ModExp(_, _, _)
\* c^e mod n, e a big-endian byte string: with e = 256 * e1 + e0,
\* c^e = (c^e1)^256 * c^e0
ModExp(c, e, n) ==
    IF e = <<>> THEN 1 % n
    ELSE LET h == ModExp(c, SubSeq(e, 1, Len(e) - 1), n) IN
         IF h = 0 THEN 0
         ELSE (PowSmall(h, 256, n) * PowSmall(c % n, e[Len(e)], n)) % n

\* a faulty VerifyPKCS1v15 that checks the form of the signature and never
\* compares the digest
VerifyPKCS1v15Lax(N, E, hashed, sig) ==
    /\ Len(N) = 2
    /\ Len(sig) = Len(N)
    /\ ~E.neg /\ E.mag # <<>> /\ E.mag # <<1>>
    /\ BytesToNat(sig) < BytesToNat(N)

\* rsa.VerifyPKCS1v15(&key, crypto.SHA256, hashed, sig) returns nil.
\* N: the modulus as a big.Int, E: the exponent as the int of ToInt.
VerifyPKCS1v15(N, E, hashed, sig) ==
    LET size == Len(N) IN
    /\ size = 2                              \* the modulus holds the message
    /\ Len(sig) = size                       \* the signature has its length
    /\ ~E.neg /\ E.mag # <<>> /\ E.mag # <<1>>   \* the exponent is at least 2
    /\ Len(E.mag) < 4 \/ (Len(E.mag) = 4 /\ E.mag[1] < 128)   \* and below 2^31
    /\ BytesToNat(sig) < BytesToNat(N)
    /\ ModExp(BytesToNat(sig), E.mag, BytesToNat(N)) = EncodedMessage(hashed)

\* the key pair of the licensing service, and another one
\* key pairs [n, e, d]: 3233 = 61 * 53 and 2773 = 47 * 59
ServerKey == [n |-> <<12, 161>>, e |-> <<17>>, d |-> <<10, 193>>]
OtherKey == [n |-> <<10, 213>>, e |-> <<17>>, d |-> <<157>>]

\* the signature of the message m under the private key of key
Sign(m, key) ==
    LET v == ModExp(EncodedMessage(Sum256(m)), key.d, BytesToNat(key.n))
    IN  << v \div 256, v % 256 >>

(***************************************************************************)
(* func (licenseKey *LicenseKey) HasValidSignature(publicKey string) bool  *)
(* The call as a record: result is what it returns; verified tells whether *)
(* rsa.VerifyPKCS1v15 was called, and N, E and hashed what it was called   *)
(* with.                                                                   *)
(***************************************************************************)
NoVerify ==
    [result |-> FALSE, verified |-> FALSE, N |-> <<>>,
     E |-> [neg |-> FALSE, mag |-> <<>>], hashed |-> 0]

\* a faulty HasValidSignature that hashes a re-encoding of the license key
\* bytes in place of the bytes themselves
HasValidSignatureCallRehashed(licenseKey, publicKey, bits) ==
    LET x == XmlUnmarshal(publicKey, 1)
        modulusBytes == B64Decode(x.k.Modulus)
        exponentBytes == B64Decode(x.k.Exponent)
        modulus == SetBytes(modulusBytes.bytes)
        exponent == SetBytes(exponentBytes.bytes)
        E == ToInt(exponent, bits)
        hashed == Sum256(B64Encode(licenseKey.licenseKeyBytes))
    IN  IF ~x.ok \/ ~modulusBytes.ok \/ ~exponentBytes.ok THEN NoVerify
        ELSE IF ~IsInt64(exponent) THEN NoVerify
        ELSE [result |-> VerifyPKCS1v15(modulus, E, hashed, licenseKey.signatureBytes),
              verified |-> TRUE, N |-> modulus, E |-> E, hashed |-> hashed]

HasValidSignatureCall(licenseKey, publicKey, bits) ==
    LET x == XmlUnmarshal(publicKey, 1)
        modulusBytes == B64Decode(x.k.Modulus)
        exponentBytes == B64Decode(x.k.Exponent)
        modulus == SetBytes(modulusBytes.bytes)
        exponent == SetBytes(exponentBytes.bytes)
        E == ToInt(exponent, bits)
        hashed == Sum256(licenseKey.licenseKeyBytes)
    IN  IF ~x.ok THEN NoVerify
        ELSE IF ~modulusBytes.ok THEN NoVerify
        ELSE IF ~exponentBytes.ok THEN NoVerify
        ELSE IF ~IsInt64(exponent) THEN NoVerify
        ELSE [result |-> VerifyPKCS1v15(modulus, E, hashed, licenseKey.signatureBytes),
              verified |-> TRUE, N |-> modulus, E |-> E, hashed |-> hashed]

HasValidSignature(licenseKey, publicKey, bits) ==
    HasValidSignatureCall(licenseKey, publicKey, bits).result

\* <RSAKeyValue><Modulus>n</Modulus><Exponent>e</Exponent></RSAKeyValue>,
\* with the texts of the two elements
DescriptorOf(modulus, exponent) ==
    << Start(Ascii.RSAKeyValue),
       Start(Ascii.Modulus), Text(modulus), End(Ascii.Modulus),
       Start(Ascii.Exponent), Text(exponent), End(Ascii.Exponent),
       End(Ascii.RSAKeyValue) >>

Descriptor(n, e) == DescriptorOf(B64Encode(n), B64Encode(e))

ServerDescriptor == Descriptor(ServerKey.n, ServerKey.e)
OtherDescriptor == Descriptor(OtherKey.n, OtherKey.e)

(***************************************************************************)
(* encoding/json: Marshal of an activateResponse                           *)
(***************************************************************************)
HexDigit(v) == IF v < 10 THEN 48 + v ELSE 97 + (v - 10)

\* one byte of a string as Marshal writes it
QuoteByte(c) ==
    IF c = 34 THEN <<92, 34>>
    ELSE IF c = 92 THEN <<92, 92>>
    ELSE IF c = 10 THEN <<92, 110>>
    ELSE IF c = 13 THEN <<92, 114>>
    ELSE IF c = 9 THEN <<92, 116>>
    ELSE IF c < 32 \/ c \in {60, 62, 38} THEN
        <<92, 117, 48, 48, HexDigit(c \div 16), HexDigit(c % 16)>>
    ELSE <<c>>

RECURSIVE QuoteBody(_)
\* the bytes of s, each as Marshal writes it
QuoteBody(s) ==
    LET i == FirstNotIn(s, 1, PlainBytes \ {60, 62, 38}) IN
    IF i > Len(s) THEN s
    ELSE SubSeq(s, 1, i - 1) \o QuoteByte(s[i]) \o QuoteBody(SubSeq(s, i + 1, Len(s)))

\* a string as a JSON string
Quote(s) == <<34>> \o QuoteBody(s) \o <<34>>

\* an integer as a JSON number
MarshalInt(n) ==
    (IF n.neg THEN <<45>> ELSE <<>>) \o [i \in 1..Len(n.digits) |-> 48 + n.digits[i]]

\* json.Marshal(temp) for temp of type activateResponse
MarshalActivateResponse(temp) ==
    <<123>> \o Quote(Ascii.licenseKey) \o <<58>> \o Quote(temp.LicenseKey)
    \o <<44>> \o Quote(Ascii.signature) \o <<58>> \o Quote(temp.Signature)
    \o <<44>> \o Quote(Ascii.result) \o <<58>> \o MarshalInt(temp.Result)
    \o <<44>> \o Quote(Ascii.message) \o <<58>> \o Quote(temp.Message)
    \o <<125>>

(***************************************************************************)
(* The functions of the package.  An error is the name of the step that    *)
(* returned it: "transport" (http.PostForm), "json" (decoding the response *)
(* or the stored bytes), "licenseKey" and "signature" (base64 of that      *)
(* field), "payload" (json.Unmarshal of the license key bytes); "nil": no  *)
(* error.                                                                  *)
(***************************************************************************)
\* a faulty ToBytes that leaves the signature out
ToBytesNoSignature(licenseKey) ==
    MarshalActivateResponse([LicenseKey |-> B64Encode(licenseKey.licenseKeyBytes),
                             Signature |-> <<>>,
                             Result |-> Zero,
                             Message |-> <<>>])

\* func (licenseKey *LicenseKey) ToBytes() ([]byte, error); the error is nil
ToBytes(licenseKey) ==
    LET licenseKeyBase64 == B64Encode(licenseKey.licenseKeyBytes)
        signatureBase64 == B64Encode(licenseKey.signatureBytes)
        temp == [LicenseKey |-> licenseKeyBase64,
                 Signature |-> signatureBase64,
                 Result |-> Zero,
                 Message |-> <<>>]
    IN  MarshalActivateResponse(temp)

\* a faulty parseActivateResponse that decodes the signature first
parseActivateResponseSwapped(response) ==
    LET licenseKeyBytes == B64Decode(response.LicenseKey)
        signatureBytes == B64Decode(response.Signature)
    IN  IF ~signatureBytes.ok THEN
            [licenseKeyBytes |-> <<>>, signatureBytes |-> <<>>, err |-> "signature"]
        ELSE IF ~licenseKeyBytes.ok THEN
            [licenseKeyBytes |-> <<>>, signatureBytes |-> <<>>, err |-> "licenseKey"]
        ELSE [licenseKeyBytes |-> licenseKeyBytes.bytes,
              signatureBytes |-> signatureBytes.bytes, err |-> "nil"]

\* a faulty parseActivateResponse that takes a result other than 0 for a
\* refusal, and returns an error
parseActivateResponseStrict(response) ==
    LET licenseKeyBytes == B64Decode(response.LicenseKey)
        signatureBytes == B64Decode(response.Signature)
    IN  IF response.Result # Zero THEN
            [licenseKeyBytes |-> <<>>, signatureBytes |-> <<>>, err |-> "result"]
        ELSE IF ~licenseKeyBytes.ok THEN
            [licenseKeyBytes |-> <<>>, signatureBytes |-> <<>>, err |-> "licenseKey"]
        ELSE IF ~signatureBytes.ok THEN
            [licenseKeyBytes |-> <<>>, signatureBytes |-> <<>>, err |-> "signature"]
        ELSE [licenseKeyBytes |-> licenseKeyBytes.bytes,
              signatureBytes |-> signatureBytes.bytes, err |-> "nil"]

\* func parseActivateResponse(response *activateResponse) ([]byte, []byte, error)
parseActivateResponse(response) ==
    LET licenseKeyBytes == B64Decode(response.LicenseKey)
        signatureBytes == B64Decode(response.Signature)
    IN  IF ~licenseKeyBytes.ok THEN
            [licenseKeyBytes |-> <<>>, signatureBytes |-> <<>>, err |-> "licenseKey"]
        ELSE IF ~signatureBytes.ok THEN
            [licenseKeyBytes |-> <<>>, signatureBytes |-> <<>>, err |-> "signature"]
        ELSE [licenseKeyBytes |-> licenseKeyBytes.bytes,
              signatureBytes |-> signatureBytes.bytes, err |-> "nil"]

\* json.Unmarshal of the parsed text d into a struct that holds old
JsonUnmarshal(d, schema, old, bits) ==
    IF ~d.ok THEN DFail ELSE UnmarshalStruct(d.v, schema, old, bits)

\* json.Unmarshal(licenseKeyBytes, &k), d being the parsed text
JsonUnmarshalLicenseKey(d, bits) ==
    IF ~d.ok THEN DFail ELSE LicenseKeyUnmarshalJSON(ZeroLicenseKey, d.v, bits)

\* a faulty buildLicenseKey that returns the raw bytes with its error
WithRawBytesKept(k, licenseKeyBytes, signatureBytes) ==
    IF ~k.ok THEN [k |-> [ZeroLicenseKey EXCEPT !.licenseKeyBytes = licenseKeyBytes,
                                                !.signatureBytes = signatureBytes],
                   err |-> "payload"]
    ELSE [k |-> [k.val EXCEPT !.licenseKeyBytes = licenseKeyBytes,
                              !.signatureBytes = signatureBytes],
          err |-> "nil"]

\* what buildLicenseKey returns, k being the outcome of json.Unmarshal
WithRawBytes(k, licenseKeyBytes, signatureBytes) ==
    IF ~k.ok THEN [k |-> ZeroLicenseKey, err |-> "payload"]
    ELSE [k |-> [k.val EXCEPT !.licenseKeyBytes = licenseKeyBytes,
                              !.signatureBytes = signatureBytes],
          err |-> "nil"]

\* a faulty buildLicenseKey that checks the signature against the key of
\* the service, and returns an error when it does not match
buildLicenseKeyChecked(licenseKeyBytes, signatureBytes, bits) ==
    IF ~HasValidSignature([ZeroLicenseKey EXCEPT
                               !.licenseKeyBytes = licenseKeyBytes,
                               !.signatureBytes = signatureBytes],
                          ServerDescriptor, bits)
    THEN [k |-> ZeroLicenseKey, err |-> "signature"]
    ELSE WithRawBytes(JsonUnmarshalLicenseKey(ParseDocument(licenseKeyBytes), bits),
                      licenseKeyBytes, signatureBytes)

\* func buildLicenseKey(licenseKeyBytes []byte, signatureBytes []byte) (LicenseKey, error)
buildLicenseKey(licenseKeyBytes, signatureBytes, bits) ==
    WithRawBytes(JsonUnmarshalLicenseKey(ParseDocument(licenseKeyBytes), bits),
                 licenseKeyBytes, signatureBytes)

\* the lines KeyActivate and KeyFromBytes share.  p is what
\* parseActivateResponse returned:
\*     if err != nil { return LicenseKey{}, err }
\*     return buildLicenseKey(licenseKeyBytes, signatureBytes)
FromParsed(p, bits) ==
    IF p.err # "nil" THEN [k |-> ZeroLicenseKey, err |-> p.err]
    ELSE buildLicenseKey(p.licenseKeyBytes, p.signatureBytes, bits)

\* a is the response and the error of the first step:
\*     if err != nil { return LicenseKey{}, err }
\*     licenseKeyBytes, signatureBytes, err := parseActivateResponse(&r)
FromResponse(a, bits) ==
    IF a.err # "nil" THEN [k |-> ZeroLicenseKey, err |-> a.err]
    ELSE FromParsed(parseActivateResponse(a.r), bits)

\* the response and the error after decoding, r being the outcome of the
\* decoder
Decoded(r) ==
    IF ~r.ok THEN [r |-> ZeroActivateResponse, err |-> "json"]
    ELSE [r |-> r.val, err |-> "nil"]

\* var r activateResponse; err := json.Unmarshal(b, &r) of KeyFromBytes
UnmarshalActivateResponse(b, bits) ==
    Decoded(JsonUnmarshal(ParseDocument(b), ActivateResponseSchema,
                          ZeroActivateResponse, bits))

\* a faulty KeyFromBytes that passes the two byte strings to
\* buildLicenseKey in the wrong order
KeyFromBytesSwapped(b, bits) ==
    LET a == UnmarshalActivateResponse(b, bits)
        p == parseActivateResponse(a.r)
    IN  IF a.err # "nil" THEN [k |-> ZeroLicenseKey, err |-> a.err]
        ELSE IF p.err # "nil" THEN [k |-> ZeroLicenseKey, err |-> p.err]
        ELSE buildLicenseKey(p.signatureBytes, p.licenseKeyBytes, bits)

\* func KeyFromBytes(b []byte) (LicenseKey, error)
KeyFromBytes(b, bits) == FromResponse(UnmarshalActivateResponse(b, bits), bits)

\* func makeActivateRequest(token string, args KeyActivateArguments)
\* (activateResponse, error).  reply is what the service answers to the
\* form that is posted: [sent, body], sent = FALSE when PostForm fails.
\* The decoder reads the first value of the body.
makeActivateRequest(reply, bits) ==
    IF ~reply.sent THEN [r |-> ZeroActivateResponse, err |-> "transport"]
    ELSE Decoded(JsonUnmarshal(ParseStream(reply.body), ActivateResponseSchema,
                               ZeroActivateResponse, bits))

\* func KeyActivate(token string, args KeyActivateArguments) (LicenseKey, error)
KeyActivate(reply, bits) == FromResponse(makeActivateRequest(reply, bits), bits)

(***************************************************************************)
(* The environment: the licensing service with its key pair, the payloads  *)
(* it signs, what it and the network may answer, the files a caller may    *)
(* read, and the public key descriptors a caller may pass.                 *)
(***************************************************************************)
PayloadId == <<123, 34, 73, 100, 34, 58, 49, 125>>             \* {"Id":1}
PayloadProduct ==                                    \* {"ProductId":3646,"F1":true}
    <<123, 34, 80, 114, 111, 100, 117, 99, 116, 73, 100, 34, 58, 51, 54, 52,
      54, 44, 34, 70, 49, 34, 58, 116, 114, 117, 101, 125>>
PayloadWide ==                                       \* {"Id":2147483648}
    <<123, 34, 73, 100, 34, 58, 50, 49, 52, 55, 52, 56, 51, 54, 52, 56, 125>>
PayloadNull == <<110, 117, 108, 108>>                           \* null
PayloadBadType == <<123, 34, 73, 100, 34, 58, 34, 120, 34, 125>>  \* {"Id":"x"}
PayloadCut == <<123, 34, 73, 100, 34, 58, 49>>                  \* {"Id":1
PayloadPartial ==                                    \* {"Key":"AB","Id":"x"}
    <<123, 34, 75, 101, 121, 34, 58, 34, 65, 66, 34, 44, 34, 73, 100, 34, 58,
      34, 120, 34, 125>>

NotBase64 == <<33, 33, 33, 33>>                                 \* !!!!
Html == <<60, 104, 116, 109, 108, 62>>                          \* <html>
Junk == <<32, 106, 117, 110, 107>>                              \*  junk
Limit == <<108, 105, 109, 105, 116>>                            \* limit

\* the text {"k1":v1,...} of the members <<k, v>>, v the text of the value
RECURSIVE MembersText(_)
MembersText(m) ==
    IF m = <<>> THEN <<>>
    ELSE Quote(m[1][1]) \o <<58>> \o m[1][2]
         \o (IF Len(m) > 1 THEN <<44>> ELSE <<>>) \o MembersText(Tail(m))

ObjectText(m) == <<123>> \o MembersText(m) \o <<125>>

\* the answer of the service that carries the payload and the signature
Answer(payload, sig, result, message) ==
    MarshalActivateResponse([LicenseKey |-> B64Encode(payload),
                             Signature |-> B64Encode(sig),
                             Result |-> result, Message |-> message])

One == Num(FALSE, <<1>>)

\* what the service signs and sends: [payload, sig, body], body being the
\* answer that carries the two.  The first two are signed by the service;
\* the third carries the signature of another key pair, the fourth the
\* signature of another payload.
SignedAnswer(payload, sig) ==
    [payload |-> payload, sig |-> sig, body |-> Answer(payload, sig, Zero, <<>>)]

Signed ==
    { SignedAnswer(PayloadId, Sign(PayloadId, ServerKey)),
      SignedAnswer(PayloadProduct, Sign(PayloadProduct, ServerKey)),
      SignedAnswer(PayloadId, Sign(PayloadId, OtherKey)),
      SignedAnswer(PayloadId, Sign(PayloadProduct, ServerKey)) }

\* well-formed answers whose payload parses
SignedBodies == {g.body : g \in Signed}

\* well-formed answers: the signed ones, one whose payload parses where int
\* has 64 bits, and a refusal that carries the payload null
GoodBodies ==
    SignedBodies
    \cup { Answer(PayloadWide, Sign(PayloadWide, ServerKey), Zero, <<>>),
           Answer(PayloadNull, <<>>, One, Limit) }

SignatureAbsent ==
    ObjectText(<< <<Ascii.licenseKey, Quote(B64Encode(PayloadId))>> >>)

\* answers that are not what the service documents
OddBodies ==
    { <<>>, Html,
      Answer(PayloadId, Sign(PayloadId, ServerKey), Zero, <<>>) \o Junk,
      ObjectText(<< <<Ascii.result, <<49>>>>, <<Ascii.message, Quote(Limit)>> >>),
      SignatureAbsent,
      ObjectText(<< <<Ascii.signature,
                      Quote(B64Encode(Sign(PayloadId, ServerKey)))>> >>),
      ObjectText(<< <<Ascii.licenseKey, <<53>>>>,
                    <<Ascii.signature, Quote(<<>>)>> >>),
      ObjectText(<< <<Ascii.licenseKey, Quote(NotBase64)>>,
                    <<Ascii.signature,
                      Quote(B64Encode(Sign(PayloadId, ServerKey)))>> >>),
      ObjectText(<< <<Ascii.licenseKey, Quote(B64Encode(PayloadId))>>,
                    <<Ascii.signature, Quote(NotBase64)>> >>),
      ObjectText(<< <<Ascii.licenseKey, Quote(NotBase64)>>,
                    <<Ascii.signature, Quote(NotBase64)>> >>),
      Answer(<<>>, <<>>, One, Limit),
      Answer(PayloadBadType, Sign(PayloadBadType, ServerKey), Zero, <<>>),
      Answer(PayloadCut, Sign(PayloadCut, ServerKey), Zero, <<>>),
      Answer(PayloadPartial, Sign(PayloadPartial, ServerKey), Zero, <<>>) }

\* the answers in which one bit of the payload was flipped after the
\* service signed it
TamperedBodies ==
    { Answer(FlipAt(PayloadId, i, k), Sign(PayloadId, ServerKey), Zero, <<>>) :
        i \in 1..Len(PayloadId), k \in 0..7 }

(***************************************************************************)
(* Payloads with time fields and allowed machines.  A payload is described *)
(* by what the service puts into it: a time field is [given, t], t the     *)
(* seconds it writes when given; Customer is absent, null or an object;    *)
(* ActivatedMachines and AllowedMachines are [given, ...].                 *)
(***************************************************************************)
NoTime == [given |-> FALSE, t |-> Zero]
At(t) == [given |-> TRUE, t |-> t]

\* 1700000000, -1, 2^63 - 1, and the last second that time.Unix holds:
\* 2^63 - 1 - 62135596800
Later == Num(FALSE, <<1, 7, 0, 0, 0, 0, 0, 0, 0, 0>>)
Before == Num(TRUE, <<1>>)
Farthest == Num(FALSE, MaxInt64)
LastHeld ==
    Num(FALSE, <<9, 2, 2, 3, 3, 7, 1, 9, 7, 4, 7, 1, 9, 1, 7, 9, 0, 0, 7>>)

NullText == <<110, 117, 108, 108>>

\* the member key:t of a time field, nothing when it is not given
TimeMember(key, time) ==
    IF time.given THEN << <<key, MarshalInt(time.t)>> >> ELSE <<>>

\* the text [v1,...] of the values whose texts are items
RECURSIVE ItemsText(_)
ItemsText(items) ==
    IF items = <<>> THEN <<>>
    ELSE items[1] \o (IF Len(items) > 1 THEN <<44>> ELSE <<>>)
         \o ItemsText(Tail(items))

ArrayText(items) == <<91>> \o ItemsText(items) \o <<93>>

CustomerMember(c) ==
    IF c.form = "absent" THEN <<>>
    ELSE IF c.form = "null" THEN << <<Ascii.Customer, NullText>> >>
    ELSE << <<Ascii.Customer,
              ObjectText(<< <<Ascii.Id, <<55>>>> >>
                         \o TimeMember(Ascii.Created, c.Created))>> >>

MachinesMember(m) ==
    IF ~m.given THEN <<>>
    ELSE << <<Ascii.ActivatedMachines,
              ArrayText([i \in 1..Len(m.times) |->
                  ObjectText(<< <<Ascii.Mid, Quote(<<109>>)>> >>
                             \o TimeMember(Ascii.Time, m.times[i]))])>> >>

AllowedMember(a) ==
    IF ~a.given THEN <<>>
    ELSE << <<Ascii.AllowedMachines, Quote(a.s)>> >>

\* the payload the description d stands for
PayloadOf(d) ==
    ObjectText(TimeMember(Ascii.Created, d.Created)
               \o TimeMember(Ascii.Expires, d.Expires)
               \o CustomerMember(d.Customer)
               \o MachinesMember(d.ActivatedMachines)
               \o AllowedMember(d.AllowedMachines)
               \o TimeMember(Ascii.SignDate, d.SignDate))

NoCustomer == [form |-> "absent", Created |-> NoTime]
NoMachines == [given |-> FALSE, times |-> <<>>]
NoAllowed == [given |-> FALSE, s |-> <<>>]

\* the payload {}
Bare ==
    [Created |-> NoTime, Expires |-> NoTime, SignDate |-> NoTime,
     Customer |-> NoCustomer, ActivatedMachines |-> NoMachines,
     AllowedMachines |-> NoAllowed]

\* the time fields of the license key
TopTimes ==
    { [Bare EXCEPT !.Created = At(Zero), !.Expires = At(Zero),
                   !.SignDate = At(Zero)],
      [Bare EXCEPT !.Created = At(Later), !.Expires = At(Before)],
      [Bare EXCEPT !.Expires = At(Later), !.SignDate = At(LastHeld)],
      [Bare EXCEPT !.Created = At(Zero), !.Expires = At(Farthest)] }

\* the customer
Customers ==
    { [Bare EXCEPT !.Customer = [form |-> "null", Created |-> NoTime]],
      [Bare EXCEPT !.Created = At(Later),
                   !.Customer = [form |-> "object", Created |-> NoTime]],
      [Bare EXCEPT !.Customer = [form |-> "object", Created |-> At(Zero)]],
      [Bare EXCEPT !.Expires = At(Before),
                   !.Customer = [form |-> "object", Created |-> At(Later)]] }

\* the activated machines
Machines ==
    { [Bare EXCEPT !.ActivatedMachines = [given |-> TRUE, times |-> <<>>]],
      [Bare EXCEPT !.ActivatedMachines =
                       [given |-> TRUE, times |-> <<At(Zero)>>]],
      [Bare EXCEPT !.ActivatedMachines =
                       [given |-> TRUE,
                        times |-> <<At(Later), NoTime, At(Before)>>]] }

\* the allowed machines: "", a, a LF b, LF, a LF LF b LF, a CR LF b
AllowedStrings ==
    { <<>>, <<97>>, <<97, 10, 98>>, <<10>>, <<97, 10, 10, 98, 10>>,
      <<97, 13, 10, 98>> }

Allowed ==
    { [Bare EXCEPT !.AllowedMachines = [given |-> TRUE, s |-> s]] :
        s \in AllowedStrings }

Described == {Bare} \cup TopTimes \cup Customers \cup Machines \cup Allowed

\* a description with the answer of the service that carries its payload
DecodeCase(d, payload) ==
    [d |-> d, payload |-> payload,
     body |-> Answer(payload, Sign(payload, ServerKey), Zero, <<>>)]

DecodeCases == {DecodeCase(d, PayloadOf(d)) : d \in Described}

(***************************************************************************)
(* Answers that differ in result and message.  A member is described by    *)
(* its form: "absent", "null", "int" (the integer n) or "str" (a string);  *)
(* text is what is written.                                                *)
(***************************************************************************)
NoMember == [form |-> "absent", text |-> <<>>, n |-> Zero]
NullMember == [form |-> "null", text |-> NullText, n |-> Zero]
IntMember(n) == [form |-> "int", text |-> MarshalInt(n), n |-> n]
StrMember(x) == [form |-> "str", text |-> Quote(x), n |-> Zero]

\* the member key:text, nothing when it is absent
Member(key, m) ==
    IF m.form = "absent" THEN <<>> ELSE << <<key, m.text>> >>

\* results: none, 0, 1, -7, 2^31, 2^63, null
Results ==
    { NoMember, IntMember(Zero), IntMember(One),
      IntMember(Num(TRUE, <<7>>)),
      IntMember(Num(FALSE, MinInt32)),
      IntMember(Num(FALSE, MinInt64)),
      NullMember }

\* messages: none, "", "limit", null
Messages == { NoMember, StrMember(<<>>), StrMember(Limit), NullMember }

\* the licenseKey and signature fields: signed by the service, a
\* licenseKey that is not base64, a payload that does not parse
Carried ==
    { [licenseKey |-> B64Encode(PayloadId),
       signature |-> B64Encode(Sign(PayloadId, ServerKey))],
      [licenseKey |-> NotBase64,
       signature |-> B64Encode(Sign(PayloadId, ServerKey))],
      [licenseKey |-> B64Encode(PayloadBadType),
       signature |-> B64Encode(Sign(PayloadBadType, ServerKey))] }

\* an answer, by its four members
Variants ==
    { [licenseKey |-> c.licenseKey, signature |-> c.signature,
       result |-> r, message |-> m] :
        c \in Carried, r \in Results, m \in Messages }

VariantText(v) ==
    ObjectText(<< <<Ascii.licenseKey, Quote(v.licenseKey)>>,
                  <<Ascii.signature, Quote(v.signature)>> >>
               \o Member(Ascii.result, v.result)
               \o Member(Ascii.message, v.message))

NoReply == [sent |-> FALSE, body |-> <<>>]
Reply(body) == [sent |-> TRUE, body |-> body]

\* the answers of the life-cycle specification, those of the error
\* specification, those of the verification specification and those of the
\* tamper specification
Replies == {NoReply} \cup {Reply(b) : b \in GoodBodies}
AllReplies == Replies \cup {Reply(b) : b \in OddBodies}
SignedReplies ==
    { Reply(Answer(PayloadId, Sign(PayloadId, ServerKey), Zero, <<>>)),
      Reply(Answer(PayloadId, Sign(PayloadId, OtherKey), Zero, <<>>)) }
TamperedReplies ==
    {Reply(b) : b \in TamperedBodies}
    \cup {Reply(Answer(PayloadId, Sign(PayloadId, ServerKey), Zero, <<>>))}

\* the answers that carry the payloads with time fields, and the same as
\* files
DecodeReplies == {Reply(c.body) : c \in DecodeCases}
DecodeFiles == {c.body : c \in DecodeCases}

\* the answers that differ in result and message, and the same as files
VariantReplies == {Reply(VariantText(v)) : v \in Variants}
VariantFiles == {VariantText(v) : v \in Variants}

\* files that were not written by ToBytes
Files == {Html, Answer(PayloadId, Sign(PayloadId, ServerKey), One, Limit)}
AllFiles == GoodBodies \cup OddBodies

\* the descriptors of the life-cycle specification
Keys == {ServerDescriptor, OtherDescriptor}

\* descriptors that are not well-formed markup: nothing, no markup at all,
\* a root that is not closed, a root closed by another tag, a child that is
\* not closed, text in front of the root, an unfinished tag after the
\* root, and a second root
Malformed ==
    { <<>>,
      << Bad >>,
      SubSeq(ServerDescriptor, 1, 7),
      SubSeq(ServerDescriptor, 1, 7) \o << End(Ascii.Modulus) >>,
      << Start(Ascii.RSAKeyValue), Start(Ascii.Modulus),
         Text(B64Encode(ServerKey.n)), End(Ascii.RSAKeyValue) >>,
      << Text(Junk) >> \o ServerDescriptor,
      ServerDescriptor \o << Bad >>,
      ServerDescriptor \o << Start(Ascii.RSAKeyValue), End(Ascii.RSAKeyValue) >> }

\* well-formed descriptors in which an element is absent, or is not base64
Incomplete ==
    { << Start(Ascii.RSAKeyValue),
         Start(Ascii.Exponent), Text(B64Encode(ServerKey.e)), End(Ascii.Exponent),
         End(Ascii.RSAKeyValue) >>,
      << Start(Ascii.RSAKeyValue),
         Start(Ascii.Modulus), Text(B64Encode(ServerKey.n)), End(Ascii.Modulus),
         End(Ascii.RSAKeyValue) >>,
      << Start(Ascii.RSAKeyValue), End(Ascii.RSAKeyValue) >>,
      DescriptorOf(NotBase64, B64Encode(ServerKey.e)),
      DescriptorOf(B64Encode(ServerKey.n), NotBase64) }

\* exponents: 17 with zero bytes in front, 2^31 + 17, 2^32 + 17, 2^63 - 1,
\* 2^63, 2^64 + 17
Exponents ==
    { <<0, 0, 17>>,
      <<128, 0, 0, 17>>,
      <<1, 0, 0, 0, 17>>,
      <<127, 255, 255, 255, 255, 255, 255, 255>>,
      <<128, 0, 0, 0, 0, 0, 0, 0>>,
      <<1, 0, 0, 0, 0, 0, 0, 0, 17>> }

\* the descriptors of the verification specification
AllKeys ==
    Keys \cup Malformed \cup Incomplete
    \cup {Descriptor(ServerKey.n, e) : e \in Exponents}

\* the widths of int
Widths == {32, 64}

\* the calls of KeyActivate and of KeyFromBytes on what the environment
\* holds, for each width of int: [bits, reply, out, r], out being what the
\* function returns and r the activateResponse it decoded
Activated ==
    { [bits |-> b, reply |-> reply,
       out |-> KeyActivate(reply, b),
       r |-> makeActivateRequest(reply, b).r] :
        b \in Widths,
        reply \in AllReplies \cup SignedReplies \cup TamperedReplies
                  \cup DecodeReplies \cup VariantReplies }

Loaded ==
    { [bits |-> b, reply |-> Reply(blob),
       out |-> KeyFromBytes(blob, b),
       r |-> UnmarshalActivateResponse(blob, b).r] :
        b \in Widths, blob \in Files \cup AllFiles \cup DecodeFiles
                                 \cup VariantFiles }

(***************************************************************************)
(* The state: a caller that holds one license key, as the example program  *)
(* does, and the file it stores the key in.                                *)
(***************************************************************************)
VARIABLES
    bits,        \* the width of int in this build: 32 or 64
    licenseKey,  \* the LicenseKey the last KeyActivate or KeyFromBytes returned
    err,         \* the error it returned; "unset" before the first call
    last,        \* the function called last
    input,       \* what that KeyActivate or KeyFromBytes was given: a reply
    response,    \* the activateResponse it decoded
    built,       \* licenseKey as it was when it was returned
    file,        \* the stored bytes: [written, bytes]
    saved,       \* the license key ToBytes was called on for the file, the
                 \* error it had come with, and its chain
    chain,       \* [origin, cycles]: the license key this one is a reloaded
                 \* copy of, and the number of store/reload cycles between
    verify,      \* the last HasValidSignature call: [called, publicKey, call]
    noted        \* the first HasValidSignature call on this license key:
                 \* [set, publicKey, result, others], others: ToBytes or
                 \* HasValidSignature with another key was called since

vars == <<bits, licenseKey, err, last, input, response, built, file, saved,
          chain, verify, noted>>

\* the number of store/reload cycles a run goes through
MaxCycles == 2

NoCall == [called |-> FALSE, publicKey |-> <<>>, call |-> NoVerify]
NoNote == [set |-> FALSE, publicKey |-> <<>>, result |-> FALSE, others |-> FALSE]

Init ==
    /\ bits \in Widths
    /\ licenseKey = ZeroLicenseKey
    /\ err = "unset"
    /\ last = "init"
    /\ input = NoReply
    /\ response = ZeroActivateResponse
    /\ built = ZeroLicenseKey
    /\ file = [written |-> FALSE, bytes |-> <<>>]
    /\ saved = [k |-> ZeroLicenseKey, err |-> "unset",
                chain |-> [origin |-> ZeroLicenseKey, cycles |-> 0]]
    /\ chain = [origin |-> ZeroLicenseKey, cycles |-> 0]
    /\ verify = NoCall
    /\ noted = NoNote

\* licenseKey, err := KeyActivate(token, args), the service answering with
\* one of replies
Activate(replies) ==
    \E a \in Activated :
        /\ a.bits = bits
        /\ a.reply \in replies
        /\ licenseKey' = a.out.k
        /\ err' = a.out.err
        /\ last' = "KeyActivate"
        /\ input' = a.reply
        /\ response' = a.r
        /\ built' = a.out.k
        /\ chain' = [origin |-> a.out.k, cycles |-> 0]
        /\ verify' = NoCall
        /\ noted' = NoNote
        /\ UNCHANGED <<bits, file, saved>>

\* licenseKey, err := KeyFromBytes(b), b one of the byte strings blobs
FromBytes(blobs) ==
    \E a \in Loaded :
        /\ a.bits = bits
        /\ a.reply.body \in blobs
        /\ licenseKey' = a.out.k
        /\ err' = a.out.err
        /\ last' = "KeyFromBytes"
        /\ input' = a.reply
        /\ response' = a.r
        /\ built' = a.out.k
        /\ chain' = [origin |-> a.out.k, cycles |-> 0]
        /\ verify' = NoCall
        /\ noted' = NoNote
        /\ UNCHANGED <<bits, file, saved>>

\* serialized, err := licenseKey.ToBytes(), and serialized written to the file
Store ==
    /\ file' = [written |-> TRUE, bytes |-> ToBytes(licenseKey)]
    /\ saved' = [k |-> licenseKey, err |-> err, chain |-> chain]
    /\ last' = "ToBytes"
    /\ noted' = IF noted.set THEN [noted EXCEPT !.others = TRUE] ELSE noted
    /\ UNCHANGED <<bits, licenseKey, err, input, response, built, chain, verify>>

\* licenseKey, err := KeyFromBytes(savedKeyBytes), the bytes read from the file
Reload ==
    /\ file.written
    /\ saved.chain.cycles < MaxCycles
    /\ LET out == KeyFromBytes(file.bytes, bits) IN
           /\ licenseKey' = out.k
           /\ err' = out.err
           /\ built' = out.k
    /\ response' = UnmarshalActivateResponse(file.bytes, bits).r
    /\ last' = "Reload"
    /\ input' = Reply(file.bytes)
    /\ chain' = [origin |-> saved.chain.origin, cycles |-> saved.chain.cycles + 1]
    /\ verify' = NoCall
    /\ noted' = NoNote
    /\ UNCHANGED <<bits, file, saved>>

\* a faulty HasValidSignature that uses the signature up: the license key
\* holds none after the call
VerifyConsuming(keys) ==
    \E publicKey \in keys :
        LET call == HasValidSignatureCall(licenseKey, publicKey, bits) IN
        /\ verify' = [called |-> TRUE, publicKey |-> publicKey, call |-> call]
        /\ noted' = IF ~noted.set
                    THEN [set |-> TRUE, publicKey |-> publicKey,
                          result |-> call.result, others |-> FALSE]
                    ELSE IF publicKey # noted.publicKey
                    THEN [noted EXCEPT !.others = TRUE]
                    ELSE noted
        /\ last' = "HasValidSignature"
        /\ licenseKey' = [licenseKey EXCEPT !.signatureBytes = <<>>]
        /\ UNCHANGED <<bits, err, input, response, built, file, saved, chain>>

\* licenseKey.HasValidSignature(publicKey), publicKey one of keys
Verify(keys) ==
    \E publicKey \in keys :
        LET call == HasValidSignatureCall(licenseKey, publicKey, bits) IN
        /\ verify' = [called |-> TRUE, publicKey |-> publicKey, call |-> call]
        /\ noted' = IF ~noted.set
                    THEN [set |-> TRUE, publicKey |-> publicKey,
                          result |-> call.result, others |-> FALSE]
                    ELSE IF publicKey # noted.publicKey
                    THEN [noted EXCEPT !.others = TRUE]
                    ELSE noted
        /\ last' = "HasValidSignature"
        /\ UNCHANGED <<bits, licenseKey, err, input, response, built, file,
                       saved, chain>>

\* the life cycle of the example program: activate or load, verify, store,
\* reload
Next ==
    \/ Activate(Replies)
    \/ FromBytes(Files)
    \/ Store
    \/ Reload
    \/ Verify(Keys)

Spec == Init /\ [][Next]_vars

\* every answer and every file, those the service does not document with them
NextErrors ==
    \/ Activate(AllReplies)
    \/ FromBytes(AllFiles)
    \/ Verify(Keys)

SpecErrors == Init /\ [][NextErrors]_vars

\* every descriptor
NextVerify ==
    \/ Activate(SignedReplies)
    \/ Verify(AllKeys)

SpecVerify == Init /\ [][NextVerify]_vars

\* answers tampered with on their way
NextTamper ==
    \/ Activate(TamperedReplies)
    \/ Verify(Keys)

SpecTamper == Init /\ [][NextTamper]_vars

\* payloads with time fields and allowed machines
NextDecode ==
    \/ Activate(DecodeReplies)
    \/ FromBytes(DecodeFiles)
    \/ Verify(Keys)

SpecDecode == Init /\ [][NextDecode]_vars

\* answers and files that differ in result and message
NextResult ==
    \/ Activate(VariantReplies)
    \/ FromBytes(VariantFiles)
    \/ Verify(Keys)

SpecResult == Init /\ [][NextResult]_vars

(***************************************************************************)
(* Properties                                                              *)
(***************************************************************************)
\* the raw bytes of two license keys are the same
SameRawBytes(a, b) ==
    /\ a.licenseKeyBytes = b.licenseKeyBytes
    /\ a.signatureBytes = b.signatureBytes

\* C1, as stated: round trip.  For every LicenseKey record k,
\* KeyFromBytes(ToBytes(k)) returns no error and a record with the raw
\* license bytes and the raw signature bytes of k.  (After Reload,
\* licenseKey and err are what KeyFromBytes returned for ToBytes(saved.k).)
C1_RoundTripEveryRecord ==
    last = "Reload" => err = "nil" /\ SameRawBytes(licenseKey, saved.k)

\* C1, amended: round trip.  For every LicenseKey record k that KeyActivate
\* or KeyFromBytes returned with no error, KeyFromBytes(ToBytes(k)) returns
\* no error and a record with the raw license bytes and the raw signature
\* bytes of k.
C1_RoundTrip ==
    (last = "Reload" /\ saved.err = "nil")
        => err = "nil" /\ SameRawBytes(licenseKey, saved.k)

\* a record with a payload and a signature was stored and read back
C1_Witness ==
    /\ last = "Reload"
    /\ saved.err = "nil"
    /\ saved.k.licenseKeyBytes = PayloadProduct
    /\ saved.k.signatureBytes # <<>>
    /\ SameRawBytes(licenseKey, saved.k)

\* C2: store/reload stability.  From a record that KeyActivate or
\* KeyFromBytes returned, every store/reload cycle succeeds, and after any
\* number of cycles HasValidSignature returns for every public key what it
\* returns on the original record.
C2_StoreReloadStable ==
    (last = "Reload" /\ saved.err = "nil")
        => /\ err = "nil"
           /\ \A publicKey \in AllKeys :
                  HasValidSignature(licenseKey, publicKey, bits)
                      = HasValidSignature(chain.origin, publicKey, bits)

\* after the last cycle the bound allows, the signature of a record of the
\* service still verifies with the key of the service and not with another
C2_Witness ==
    /\ last = "Reload"
    /\ saved.err = "nil"
    /\ chain.cycles = MaxCycles
    /\ HasValidSignature(chain.origin, ServerDescriptor, bits)
    /\ HasValidSignature(licenseKey, ServerDescriptor, bits)
    /\ ~HasValidSignature(licenseKey, OtherDescriptor, bits)

\* a and b have one length and differ in one bit
OneBitApart(a, b) ==
    /\ Len(a) = Len(b)
    /\ \E i \in 1..Len(b), k \in 0..7 : a = FlipAt(b, i, k)

\* the license key carries the signature the service made for PayloadId,
\* and raw license bytes one bit apart from PayloadId
Tampered ==
    /\ licenseKey.signatureBytes = Sign(PayloadId, ServerKey)
    /\ OneBitApart(licenseKey.licenseKeyBytes, PayloadId)

\* C3: tamper sensitivity.  If the raw license bytes of a record differ in
\* one bit from the bytes that were signed, HasValidSignature with the
\* signature of those bytes and the matching public key returns false.
C3_TamperDetected ==
    (verify.called /\ verify.publicKey = ServerDescriptor /\ Tampered)
        => ~verify.call.result

\* a tampered record that parsed was verified with the key of the service
C3_Witness ==
    /\ verify.called
    /\ verify.publicKey = ServerDescriptor
    /\ verify.call.verified
    /\ err = "nil"
    /\ Tampered

\* white space between the elements of a descriptor
IsSpaceText(t) ==
    t.k = "text" /\ \A i \in 1..Len(t.s) : t.s[i] \in {32, 9, 13, 10}

\* well-formed markup: one root element, its tags nested and closed, and
\* nothing but white space around it
WellFormed(toks) ==
    \E i \in 1..Len(toks) :
        /\ toks[i].k = "start"
        /\ \A j \in 1..(i - 1) : IsSpaceText(toks[j])
        /\ XmlSkip(toks, i + 1, toks[i].s) # 0
        /\ \A j \in XmlSkip(toks, i + 1, toks[i].s)..Len(toks) : IsSpaceText(toks[j])

\* the descriptor has no element of that name
Absent(toks, name) == \A i \in 1..Len(toks) : toks[i] # Start(name)

\* the text of the Modulus or of the Exponent element is not base64
NotBase64Text(toks) ==
    /\ XmlUnmarshal(toks, 1).ok
    /\ \/ ~B64Decode(XmlUnmarshal(toks, 1).k.Modulus).ok
       \/ ~B64Decode(XmlUnmarshal(toks, 1).k.Exponent).ok

\* C4: fail-closed verification.  HasValidSignature returns false whenever
\* the public key descriptor is not well-formed markup, or its Modulus or
\* its Exponent element is absent, or either is not valid base64, for
\* every record.
C4_FailClosed ==
    ( /\ verify.called
      /\ \/ ~WellFormed(verify.publicKey)
         \/ Absent(verify.publicKey, Ascii.Modulus)
         \/ Absent(verify.publicKey, Ascii.Exponent)
         \/ NotBase64Text(verify.publicKey) )
        => ~verify.call.result

\* the exponent a descriptor holds, as HasValidSignature reads it: [ok, e],
\* ok when the descriptor is read up to the exponent, e the big.Int
ExponentOf(toks) ==
    [ok |-> /\ XmlUnmarshal(toks, 1).ok
            /\ B64Decode(XmlUnmarshal(toks, 1).k.Modulus).ok
            /\ B64Decode(XmlUnmarshal(toks, 1).k.Exponent).ok,
     e |-> SetBytes(B64Decode(XmlUnmarshal(toks, 1).k.Exponent).bytes)]

\* C5: exponent bound.  For a descriptor whose Exponent decodes to a
\* number of 2^63 or more, HasValidSignature returns false and does not
\* attempt the RSA verification; an exponent below 2^63 is passed to the
\* RSA verification with its value unchanged.
C5_ExponentBound ==
    (verify.called /\ ExponentOf(verify.publicKey).ok)
        => IF ~IsInt64(ExponentOf(verify.publicKey).e)
           THEN ~verify.call.result /\ ~verify.call.verified
           ELSE /\ verify.call.verified
                /\ verify.call.E = [neg |-> FALSE,
                                    mag |-> ExponentOf(verify.publicKey).e]

\* C6: the raw bytes are never re-derived or mutated.  Through any
\* sequence of HasValidSignature and ToBytes calls on a record that
\* KeyActivate or KeyFromBytes built, its raw license bytes and raw
\* signature bytes are the base64-decoded licenseKey and signature fields
\* it was built from, the record is as it was returned, and the digest is
\* computed over the raw license bytes.
C6_RawBytesKept ==
    /\ licenseKey = built
    /\ err = "nil" =>
           /\ licenseKey.licenseKeyBytes = B64Decode(response.LicenseKey).bytes
           /\ licenseKey.signatureBytes = B64Decode(response.Signature).bytes
    /\ (verify.called /\ verify.call.verified) =>
           verify.call.hashed = Sum256(licenseKey.licenseKeyBytes)

\* a record of the service was verified with both keys and then stored
C6_Witness ==
    /\ err = "nil"
    /\ licenseKey.licenseKeyBytes = PayloadProduct
    /\ verify.called /\ verify.call.verified
    /\ noted.set /\ noted.others
    /\ last = "ToBytes"

\* C7: construction does not verify.  For every well-formed answer or blob
\* whose payload parses, KeyActivate and KeyFromBytes return the parsed
\* record with no error whether or not the signature matches the payload;
\* that it does not match is reported by HasValidSignature returning false,
\* and by nothing else.
C7_ConstructionDoesNotVerify ==
    \A g \in Signed :
        input = Reply(g.body) =>
            /\ err = "nil"
            /\ licenseKey.licenseKeyBytes = g.payload
            /\ licenseKey.signatureBytes = g.sig
            /\ licenseKey.Id = (IF g.payload = PayloadId THEN One ELSE Zero)
            /\ licenseKey.F1 = (g.payload = PayloadProduct)
            /\ (verify.called /\ verify.publicKey = ServerDescriptor) =>
                   verify.call.result = (g.sig = Sign(g.payload, ServerKey))

\* a record whose signature is that of another payload was returned with
\* its fields, and HasValidSignature returned false for it
C7_Witness ==
    /\ input = Reply(Answer(PayloadId, Sign(PayloadProduct, ServerKey), Zero, <<>>))
    /\ err = "nil"
    /\ licenseKey.Id = One
    /\ verify.called
    /\ verify.publicKey = ServerDescriptor
    /\ ~verify.call.result

\* the text b is an object without a member of that name
MemberAbsent(b, name) ==
    /\ ParseDocument(b).ok
    /\ ParseDocument(b).v.t = "obj"
    /\ \A i \in 1..Len(ParseDocument(b).v.items) :
           ParseDocument(b).v.items[i][1] # name

\* C8: activation error contract.  KeyActivate returns an error and no
\* record if the transport fails, if the body of the response is not valid
\* JSON, if the licenseKey field or the signature field is absent from it,
\* or if either of the two fields fails to base64-decode.
C8_ActivateErrors ==
    ( /\ last = "KeyActivate"
      /\ \/ ~input.sent
         \/ ~ParseDocument(input.body).ok
         \/ MemberAbsent(input.body, Ascii.licenseKey)
         \/ MemberAbsent(input.body, Ascii.signature)
         \/ ~B64Decode(response.LicenseKey).ok
         \/ ~B64Decode(response.Signature).ok )
        => err # "nil" /\ licenseKey = ZeroLicenseKey

\* C9: deserialization error contract.  KeyFromBytes returns an error if
\* the blob is not well-formed JSON, or if its licenseKey field or its
\* signature field fails to base64-decode; the checks run in that order,
\* and the first that fails is the one whose error is returned.
C9_FromBytesErrors ==
    last = "KeyFromBytes" =>
        /\ ~ParseDocument(input.body).ok => err = "json"
        /\ UnmarshalActivateResponse(input.body, bits).err = "nil" =>
               IF ~B64Decode(UnmarshalActivateResponse(input.body, bits).r.LicenseKey).ok
               THEN err = "licenseKey"
               ELSE IF ~B64Decode(UnmarshalActivateResponse(input.body, bits).r.Signature).ok
               THEN err = "signature"
               ELSE err \in {"nil", "payload"}

\* a blob in which neither field is base64 was refused for its licenseKey
C9_Witness ==
    /\ last = "KeyFromBytes"
    /\ ParseDocument(input.body).ok
    /\ ~B64Decode(response.LicenseKey).ok
    /\ ~B64Decode(response.Signature).ok
    /\ err = "licenseKey"

\* C10: verification is deterministic.  Two calls of HasValidSignature on
\* one record with one public key return the same result, whatever calls
\* of ToBytes and of HasValidSignature with other keys are made in between.
C10_Deterministic ==
    (verify.called /\ noted.set /\ verify.publicKey = noted.publicKey)
        => verify.call.result = noted.result

\* the first call returned true, other calls followed, and the key of the
\* first call was passed again
C10_Witness ==
    /\ last = "HasValidSignature"
    /\ verify.publicKey = noted.publicKey
    /\ noted.set /\ noted.others /\ noted.result
    /\ file.written /\ file.bytes = ToBytes(licenseKey)

\* the time is the instant t seconds after the Unix epoch, for a time field
\* the payload gives with the value t: its seconds since January 1, year 1
\* are t + 62135596800
DecodesTo(field, time) ==
    field.given => time.ext = NumAdd(field.t, unixToInternal)

\* every time field that the payload of the description d gives is decoded
\* into the license key k
TimesDecoded(d, k) ==
    /\ DecodesTo(d.Created, k.Created)
    /\ DecodesTo(d.Expires, k.Expires)
    /\ DecodesTo(d.SignDate, k.SignDate)
    /\ d.Customer.form = "object" =>
           DecodesTo(d.Customer.Created, k.Customer.Created)
    /\ d.ActivatedMachines.given =>
           /\ Len(k.ActivatedMachines) = Len(d.ActivatedMachines.times)
           /\ \A i \in 1..Len(d.ActivatedMachines.times) :
                  DecodesTo(d.ActivatedMachines.times[i],
                            k.ActivatedMachines[i].Time)

\* C11, as stated: timestamp decoding.  For every successfully parsed
\* payload and every integer t, each time field whose payload value is t
\* (Created, Expires, SignDate, Customer.Created, Time of every
\* ActivatedMachines entry) decodes to the instant t seconds after the Unix
\* epoch; 0 decodes to the epoch itself.
C11_TimestampDecoding ==
    \A c \in DecodeCases :
        (err = "nil" /\ input = Reply(c.body)) => TimesDecoded(c.d, licenseKey)

\* the time fields of d whose value time.Unix holds: at most
\* 2^63 - 1 - 62135596800
Held(field) ==
    [field EXCEPT !.given = field.given /\ (field.t.neg \/ MagLE(field.t.digits, LastHeld.digits))]

HeldTimes(d) ==
    [d EXCEPT !.Created = Held(d.Created),
              !.Expires = Held(d.Expires),
              !.SignDate = Held(d.SignDate),
              !.Customer = [d.Customer EXCEPT !.Created = Held(d.Customer.Created)],
              !.ActivatedMachines =
                  [d.ActivatedMachines EXCEPT
                      !.times = [i \in 1..Len(d.ActivatedMachines.times) |->
                                    Held(d.ActivatedMachines.times[i])]]]

\* C11 for the values up to 2^63 - 1 - 62135596800: each such time field
\* decodes to the instant t seconds after the Unix epoch
C11_HeldTimestamps ==
    \A c \in DecodeCases :
        (err = "nil" /\ input = Reply(c.body)) =>
            TimesDecoded(HeldTimes(c.d), licenseKey)

\* a payload that gives the value 0 for every time field at the top and in
\* a machine has been decoded, each to the epoch
C11_HeldWitness ==
    /\ err = "nil"
    /\ licenseKey.Created.ext = unixToInternal
    /\ licenseKey.SignDate.ext = unixToInternal
    /\ \E c \in DecodeCases :
           /\ input = Reply(c.body)
           /\ c.d.Created = At(Zero)
           /\ c.d.SignDate = At(Zero)

\* the number of line feeds in s
LineFeeds(s) == Cardinality({i \in 1..Len(s) : s[i] = 10})

RECURSIVE JoinLines(_)
\* the entries of list with a line feed between each two
JoinLines(list) ==
    IF Len(list) = 0 THEN <<>>
    ELSE IF Len(list) = 1 THEN list[1]
    ELSE list[1] \o <<10>> \o JoinLines(Tail(list))

\* list is s split at its line feeds
SplitAtLineFeeds(s, list) ==
    /\ Len(list) = LineFeeds(s) + 1
    /\ JoinLines(list) = s
    /\ s = <<>> => list = << <<>> >>

\* C12: AllowedMachines decoding.  For every payload string s in the
\* AllowedMachines field the decoded list is s split at newline
\* characters: it has (number of newlines in s) + 1 entries, joining it
\* with newlines gives back s, and the empty string decodes to the list
\* that holds the empty string, never to the empty list.
C12_AllowedMachinesSplit ==
    \A c \in DecodeCases :
        (err = "nil" /\ input = Reply(c.body) /\ c.d.AllowedMachines.given)
            => SplitAtLineFeeds(c.d.AllowedMachines.s, licenseKey.AllowedMachines)

\* the payload whose AllowedMachines is a LF LF b LF has been decoded, to
\* the four entries a, "", b, ""
C12_Witness ==
    /\ err = "nil"
    /\ licenseKey.AllowedMachines = << <<97>>, <<>>, <<98>>, <<>> >>
    /\ \E c \in DecodeCases :
           /\ input = Reply(c.body)
           /\ c.d.AllowedMachines = [given |-> TRUE, s |-> <<97, 10, 10, 98, 10>>]

\* two answers agree on licenseKey and signature
Agree(v, w) ==
    /\ v.licenseKey = w.licenseKey
    /\ v.signature = w.signature

\* what the last call returned is what the same function returns for the
\* answer with the text body
SameOutcome(body) ==
    /\ last = "KeyActivate" =>
           KeyActivate(Reply(body), bits) = [k |-> licenseKey, err |-> err]
    /\ last = "KeyFromBytes" =>
           KeyFromBytes(body, bits) = [k |-> licenseKey, err |-> err]

\* the answer has the shape the service documents: result is an integer
\* and message a string
Shaped(v) == v.result.form = "int" /\ v.message.form = "str"

\* C13, as stated: result and message do not influence the outcome.  For
\* any two activation responses (or persisted blobs) that agree on
\* licenseKey and signature but differ in result and/or message,
\* KeyActivate and KeyFromBytes produce the same outcome (the same error,
\* or the same record with the same raw bytes); a non-zero result is never
\* by itself a reason for failure.
C13_ResultMessageIgnoredEveryValue ==
    \A x \in Variants :
        (input = Reply(VariantText(x)) /\ Shaped(x)) =>
            \A y \in Variants :
                (Agree(x, y) /\ Shaped(y)) => SameOutcome(VariantText(y))

\* result is absent, null or an integer that the int of the build holds;
\* message is absent, null or a string
AsDocumented(v) ==
    /\ \/ v.result.form \in {"absent", "null"}
       \/ /\ v.result.form = "int"
          /\ MagLE(v.result.n.digits,
                   IF bits = 32
                   THEN (IF v.result.n.neg THEN MinInt32 ELSE MaxInt32)
                   ELSE (IF v.result.n.neg THEN MinInt64 ELSE MaxInt64))
    /\ v.message.form \in {"absent", "null", "str"}

\* C13, amended: for any two activation responses (or persisted blobs)
\* that agree on licenseKey and signature, and in which result is absent,
\* null or an integer in the range of int and message is absent, null or a
\* string, KeyActivate and KeyFromBytes produce the same outcome; a result
\* other than 0 is never by itself a reason for failure.
C13_ResultMessageIgnored ==
    \A x \in Variants :
        (input = Reply(VariantText(x)) /\ AsDocumented(x)) =>
            \A y \in Variants :
                (Agree(x, y) /\ AsDocumented(y)) => SameOutcome(VariantText(y))

\* KeyActivate has returned a record with no error for an answer whose
\* result is 1 and whose message is "limit"
C13_Witness ==
    /\ last = "KeyActivate"
    /\ err = "nil"
    /\ licenseKey.licenseKeyBytes = PayloadId
    /\ response.Result = One
    /\ response.Message = Limit
    /\ \E x \in Variants :
           /\ input = Reply(VariantText(x))
           /\ x.result = IntMember(One)
           /\ x.message = StrMember(Limit)

\* the Unix epoch instant, as time.Unix(0, 0) gives it
Epoch == [ext |-> unixToInternal, loc |-> "Local"]

\* a time field that the payload omits is the epoch
OmittedIsEpoch(field, time) == ~field.given => time = Epoch

\* the time fields that the payload of d omits, in objects that it gives,
\* are the epoch in the license key k
OmittedFieldsAreEpoch(d, k) ==
    /\ OmittedIsEpoch(d.Created, k.Created)
    /\ OmittedIsEpoch(d.Expires, k.Expires)
    /\ OmittedIsEpoch(d.SignDate, k.SignDate)
    /\ d.Customer.form = "object" =>
           OmittedIsEpoch(d.Customer.Created, k.Customer.Created)
    /\ d.ActivatedMachines.given =>
           /\ Len(k.ActivatedMachines) = Len(d.ActivatedMachines.times)
           /\ \A i \in 1..Len(d.ActivatedMachines.times) :
                  OmittedIsEpoch(d.ActivatedMachines.times[i],
                                 k.ActivatedMachines[i].Time)

\* C14, as stated: omitted timestamps decode uniformly.  In every
\* successfully parsed record a time field that the payload omits decodes
\* exactly as if its value were 0 (the Unix epoch instant), at every level:
\* Created, Expires and SignDate at the top, and also Customer.Created
\* when the payload omits the whole Customer object.
C14_OmittedTimestamps ==
    \A c \in DecodeCases :
        (err = "nil" /\ input = Reply(c.body)) =>
            /\ OmittedFieldsAreEpoch(c.d, licenseKey)
            /\ c.d.Customer.form = "absent" => licenseKey.Customer.Created = Epoch

\* C14 without its last case: a time field omitted from the payload, from
\* a Customer object or from an ActivatedMachines entry decodes to the
\* epoch, and so does Customer.Created when Customer is null
C14_OmittedFields ==
    \A c \in DecodeCases :
        (err = "nil" /\ input = Reply(c.body)) =>
            /\ OmittedFieldsAreEpoch(c.d, licenseKey)
            /\ c.d.Customer.form = "null" => licenseKey.Customer.Created = Epoch

\* C14, what the code does in its last case: when the payload omits the
\* Customer object, Customer.Created is the zero value of time.Time
C14_OmittedCustomer ==
    \A c \in DecodeCases :
        (err = "nil" /\ input = Reply(c.body) /\ c.d.Customer.form = "absent")
            => licenseKey.Customer = ZeroCustomer

\* C15: failure yields an unusable record.  Whenever KeyActivate or
\* KeyFromBytes returns an error (transport, JSON, base64 or payload
\* parse), the returned record is the zero-valued record, with no raw
\* license bytes, no signature bytes and no partially parsed fields, and
\* HasValidSignature on that record returns false for every public key
\* descriptor.
C15_FailureYieldsZeroRecord ==
    err \notin {"nil", "unset"} =>
        /\ built = ZeroLicenseKey
        /\ licenseKey = ZeroLicenseKey
        /\ \A publicKey \in AllKeys :
               ~HasValidSignature(licenseKey, publicKey, bits)
        /\ verify.called => ~verify.call.result

\* KeyActivate has returned an error for a payload that the service signed
\* and that does not parse after its first member, and HasValidSignature
\* with the key of the service has returned false
C15_Witness ==
    /\ err = "payload"
    /\ response.LicenseKey = B64Encode(PayloadPartial)
    /\ response.Signature = B64Encode(Sign(PayloadPartial, ServerKey))
    /\ licenseKey.Key = <<>>
    /\ licenseKey.licenseKeyBytes = <<>>
    /\ verify.called
    /\ verify.publicKey = ServerDescriptor
    /\ ~verify.call.result

\* the errors of the four stages, each returned by one of the two functions
C15_Transport == err = "transport" /\ last = "KeyActivate"
C15_Json == err = "json" /\ last = "KeyFromBytes"
C15_Base64 == err \in {"licenseKey", "signature"} /\ verify.called

====
